---- MODULE Spec2Model ----
(***************************************************************************)
(* counterpoint: per-conversation ordering and persistence, transactional  *)
(* outbox + notifier, broker consumer and session hub.                     *)
(*                                                                         *)
(* The relational store is modelled as its committed tables plus the       *)
(* uncommitted write set and row locks of every open transaction.  Time    *)
(* is a logical clock in seconds.                                          *)
(***************************************************************************)
EXTENDS Integers, Sequences, FiniteSets, TLC

\* ------------------------------------------------------------------ bounds
MaxClock == 2          \* the logical clock stops advancing here
MaxSends == 3          \* send_message calls per run
MaxPipeSends == 1      \* send_message calls per run with the notifier running
MaxAttempts == 2       \* failed publish attempts per outbox event
MaxRollbacks == 1      \* notifier transactions lost after a publish
MaxCalls == 3          \* relationship calls (add_friend, create_group, invite_to_group) per run
MaxActors == 2         \* connections accepted per run
MaxCommands == 1       \* chat.message.send commands received per run
MaxPings == 1          \* pings received per run
MaxEnqueues == 2       \* enqueue calls per run
MaxFrames == 3         \* client frames read through the worker semaphore per run
max_inflight_messages == 1   \* worker permits per client (64 in accept_connection)
max_inflight_results == 1    \* join-backlog permits per client (1024 in accept_connection)
MaxUserId == 4         \* user ids of the friends table: 1..MaxUserId
MaxSince == 1          \* friendship.created_at values: 0..MaxSince
MaxFriendPage == 2     \* page_size of list_friends
MaxLogins == 1         \* login calls per run
MaxRefreshCalls == 4   \* refresh_token calls per run
MaxPageSize == 2       \* page_size of get_history (a u16 in the code)
CursorBits == 3        \* width of the cursor offset (a u64 cast to i64 in the code)
BatchLimit == 2        \* LIMIT of claim_ready_batch_in_tx (256 in tick_once)
MAILBOX_CAP == 1       \* capacity of a mailbox channel (256 in session_hub.rs)

\* ------------------------------------------------------- program constants
BackoffSecs == 2       \* chrono::Duration::seconds(2) in tick_once
NullTime == -1         \* SQL NULL in a timestamp column
Epoch == 0             \* TIMESTAMP('1970-01-01 00:00:00')

Users == {"u1", "u2"}
ConvIds == {"c1", "c2"}
GroupIds == {"g1", "g2"}
Keys == {"k1"}
MsgIds == {"m1", "m2", "m3"}
Sessions == {"s1", "s2"}
Requests == {"r1", "r2"}
ActorIds == 1..MaxActors
\* n1 is the notifier of the server process (server.rs spawns one); n2 is the
\* notifier of a second server process working on the same database
Notifiers == {"n1", "n2"}
ServerNotifiers == {"n1"}
\* the user of each connection (client_actor's user_id is the sender of its commands)
SessionUser == [s \in Sessions |-> IF s = "s1" THEN "u1" ELSE "u2"]
\* the content each connection sends
SessionContent == [s \in Sessions |-> IF s = "s1" THEN "x" ELSE "y"]

VARIABLES
    clock,                  \* Utc::now() / CURRENT_TIMESTAMP
    friendship,             \* table friendship: set of [user_min, user_max, requested_by]
    direct_pair,            \* table direct_pair: set of [user_min, user_max, conversation_id]
    group_create_idem,      \* table group_create_idem: set of [owner_id, idem_key, proposed_group, status]
    chat_group,             \* table chat_group: set of [group_id, owner_id, conversation_id]
    conversation,           \* table conversation: set of [conversation_id, kind_id, last_msg_off, last_msg_at]
    conversation_counter,   \* table conversation_counter: ConvIds -> next_offset (0: no row)
    conversation_member,    \* table conversation_member: ConvIds -> set of user ids
    message,                \* table message: set of rows
    outbox,                 \* table outbox: sequence of rows, in commit order
    tx,                     \* per session: the send_message call in progress and its transaction
    ret,                    \* per session: the result of its last send_message call
    sends,                  \* number of send_message calls begun
    dupCalls,               \* history: conversations with a call whose message_id another call used too
    usedIds,                \* history: <<message_id, conversation_id>> of all calls begun so far
    ntx,                    \* per notifier: position in run/tick_once and its transaction
    topic,                  \* the broker's log of the events topic (one partition)
    position,               \* the consumer's position in the topic
    online_users,           \* SessionHub.online_users: user -> record, or NoRecord
    placed,                 \* history: how often a message was put in a user's mailbox
    stayed,                 \* history: <<message_id, user>> connected ever since the message was accepted
    rollbacks,              \* notifier transactions rolled back after a successful publish
    conversation_member_role, \* table conversation_member_role: ConvIds -> (user -> role name, or "none")
    call,                   \* per request: the relationship call in progress
    out,                    \* per request: the result of its last relationship call
    calls,                  \* number of relationship calls begun
    history,                \* history: the Ok results returned by relationship calls
    actor,                  \* per connection: the client actor, its token, channels and tasks
    client_records,         \* online_users by connection: user -> actor of its record, 0 if none
    task,                   \* per session: the handler task of its chat.message.send command
    hub,                    \* SessionHub::shutdown progress and the bounds' counters
    enq,                    \* history: the last enqueue call and its outcome
    page,                   \* the last get_history call and its result
    session_store,          \* Redis: refresh-token identifier (jti) -> user id
    refresh_calls,          \* per caller: the refresh_token call in progress
    auth,                   \* history: tokens issued, calls made, Ok returns per jti
    consumer,               \* the broker consumer: stream position, committed offset
    inflight,               \* per actor: worker permits, join permits, handler tasks
    frames,                 \* client frames read by inbound receivers so far
    paging                  \* a client paging through list_friends: table, cursor, rows seen

dbVars == <<friendship, direct_pair, group_create_idem, chat_group, conversation,
            conversation_counter, conversation_member, message, outbox>>
sendVars == <<tx, ret, sends, dupCalls, usedIds>>
pipeVars == <<ntx, topic, position, rollbacks>>
hubVars == <<online_users, placed, stayed>>
relVars == <<conversation_member_role, call, out, calls, history>>
actorVars == <<actor, client_records, task, hub, enq>>
histVars == <<page>>
authVars == <<session_store, refresh_calls, auth>>
consVars == <<consumer>>
permVars == <<inflight, frames>>
pagingVars == <<paging>>
vars == <<clock, dbVars, sendVars, pipeVars, hubVars, relVars, actorVars, histVars, authVars,
          consVars, permVars, pagingVars>>

Max(a, b) == IF a >= b THEN a ELSE b
Min(a, b) == IF a <= b THEN a ELSE b

\* ------------------------------------------------------------ session state
NoRow == [message_id |-> "none", conversation_id |-> "none"]
IdleTx == [pc |-> "idle", conversation_id |-> "none", sender |-> "none",
           content |-> "none", message_id |-> "none", snap |-> {},
           next_offset |-> 0, assigned_off |-> 0, dup |-> FALSE,
           row |-> NoRow, event |-> NoRow]
NoRet == [status |-> "none"]
NoRecord == [connected |-> FALSE, mailbox |-> <<>>]
IdleCall == [pc |-> "idle", id |-> 0, op |-> "none", me |-> "none", other |-> "none",
             key |-> "none", group_id |-> "none", conversation_id |-> "none",
             after |-> {}, rival |-> 0]
NoActor == [user |-> "none", status |-> "unused", token |-> FALSE, socket |-> "closed",
            sender |-> "ended", receiver |-> "ended", control |-> <<>>,
            mailbox |-> <<>>, written |-> <<>>]
NoTask == [pc |-> "none", actor |-> 0, conversation_id |-> "none", message_id |-> "none",
           acks |-> <<>>]
NoEnqueue == [n |-> 0, receiver |-> "none", event |-> "none", outcome |-> "none",
              record |-> FALSE, open |-> FALSE, before |-> <<>>, after |-> <<>>]
Jtis == {"j1", "j2", "j3", "j4", "j5", "j6"}
Callers == {"k1", "k2"}
NoRefresh == [pc |-> "idle", user_id |-> "none", jti |-> "none", result |-> "none",
              refresh_token |-> "none"]
\* inbound_receiver, lines 204-207: both semaphores full, the task set empty
NoInflight == [permits |-> max_inflight_messages, join_permits |-> max_inflight_results,
               running |-> 0, finished |-> 0, last |-> "none"]
NoFriendCursor == [some |-> FALSE, since |-> 0, other_user |-> 0]
NoPaging == [pc |-> "none", user_id |-> 0, rows |-> {}, page_size |-> 0,
             after |-> NoFriendCursor, seen |-> <<>>]
NoCursor == [some |-> FALSE, offset |-> 0]
NoPage == [status |-> "none", user |-> "none", conversation_id |-> "none", page_size |-> 0,
           before |-> NoCursor, result |-> <<>>]
NoOut == [status |-> "none", id |-> 0, op |-> "none", me |-> "none", other |-> "none",
          key |-> "none", group_id |-> "none", conversation_id |-> "none",
          error |-> "none", after |-> {}, rival |-> 0]
IdleNtx == [pc |-> "idle", batch |-> <<>>, marks |-> <<>>]

\* ------------------------------------------------------------------ tables
\* UserPair::new orders the two ids
UserOrd == [u \in Users |-> IF u = "u1" THEN 1 ELSE 2]
UserPair(a, b) == IF UserOrd[a] < UserOrd[b] THEN <<a, b>> ELSE <<b, a>>

ConversationRow(c) == CHOOSE r \in conversation : r.conversation_id = c
ConversationExists(c) == \E r \in conversation : r.conversation_id = c
MessageStored(m) == \E r \in message : r.message_id = m
MessageRow(m) == CHOOSE r \in message : r.message_id = m
MessagesOf(c) == {r \in message : r.conversation_id = c}
\* Uuid::new_v4(): an id not in use; which one is immaterial, the first is taken
FreshConvIds ==
    IF ~ConversationExists("c1") THEN {"c1"}
    ELSE IF ~ConversationExists("c2") THEN {"c2"} ELSE {}

\* membership_exists_in_tx: COUNT(1) > 0 over conversation_member
MembershipNotChecked(c, u) == TRUE
\* membership_exists_in_tx: SELECT COUNT(1) FROM conversation_member .. > 0
membership_exists_in_tx(c, u) == u \in conversation_member[c]

\* GREATEST(COALESCE(last_msg_at, epoch), created_at)
Coalesce(v, d) == IF v = NullTime THEN d ELSE v

Init ==
    /\ clock = 1
    /\ friendship = {}
    /\ direct_pair = {}
    /\ group_create_idem = {}
    /\ chat_group = {}
    /\ conversation = {}
    /\ conversation_counter = [c \in ConvIds |-> 0]
    /\ conversation_member = [c \in ConvIds |-> {}]
    /\ message = {}
    /\ outbox = <<>>
    /\ tx = [s \in Sessions |-> IdleTx]
    /\ ret = [s \in Sessions |-> NoRet]
    /\ sends = 0
    /\ dupCalls = {}
    /\ usedIds = {}
    /\ ntx = [n \in Notifiers |-> IdleNtx]
    /\ topic = <<>>
    /\ position = 0
    /\ online_users = [u \in Users |-> NoRecord]
    /\ placed = [p \in MsgIds \X Users |-> 0]
    /\ stayed = {}
    /\ rollbacks = 0
    /\ conversation_member_role = [c \in ConvIds |-> [u \in Users |-> "none"]]
    /\ call = [r \in Requests |-> IdleCall]
    /\ out = [r \in Requests |-> NoOut]
    /\ calls = 0
    /\ history = {}
    /\ actor = [a \in ActorIds |-> NoActor]
    /\ client_records = [u \in Users |-> 0]
    /\ task = [s \in Sessions |-> NoTask]
    /\ hub = [pc |-> "running", handles |-> {}, commands |-> 0, enqueues |-> 0, pings |-> 0]
    /\ enq = NoEnqueue
    /\ page = NoPage
    /\ inflight = [a \in ActorIds |-> NoInflight]
    /\ frames = 0
    /\ paging = NoPaging
    /\ consumer = [next |-> 0, committed |-> 0, failed |-> {}, handled |-> {}]
    /\ session_store = [j \in Jtis |-> "none"]
    /\ refresh_calls = [k \in Callers |-> NoRefresh]
    /\ auth = [logins |-> 0, calls |-> 0, issued |-> {}, ok |-> [j \in Jtis |-> 0]]

\* ---------------------------------------------------- outbox (OutboxEvent::new)
OutboxEvent(event_type, partition_key, receivers, payload) ==
    [event_type |-> event_type, partition_key |-> partition_key,
     receivers_json |-> receivers, payload_json |-> payload]

\* enqueue_in_tx: the INSERT into outbox; created_at, delivered_at, next_attempt_at and
\* attempt_count take the column defaults.  next_attempt_in is next_attempt_at - now
\* in seconds (0: ready).
enqueue_in_tx(event) ==
    [event_type |-> event.event_type, partition_key |-> event.partition_key,
     receivers_json |-> event.receivers_json, payload_json |-> event.payload_json,
     created_at |-> clock, delivered_at |-> NullTime, next_attempt_in |-> 0,
     attempt_count |-> 0, last_error |-> "null"]

\* the row as committed: event_id is the fresh uuid of OutboxEvent::new
Committed(row) == row @@ [event_id |-> Len(outbox) + 1]

\* ---------------------------------------------- relationship service (creation)
\* create_direct_conversation_in_tx / create_group_conversation_in_tx:
\* the conversation row and its counter row (next_offset 1)
NewConversationRow(c, kind) ==
    [conversation_id |-> c, kind_id |-> kind, last_msg_off |-> 0, last_msg_at |-> NullTime]
InitialNextOffset == 1

\* add_friend(me, other): claim the friendship row (outside any transaction), then the
\* winner's transaction, which either commits or fails and rolls back.
AddFriend(me, other) ==
    /\ me # other
    /\ ~\E f \in friendship : <<f.user_min, f.user_max>> = UserPair(me, other)
    /\ friendship' = friendship \cup
          {[user_min |-> UserPair(me, other)[1], user_max |-> UserPair(me, other)[2],
            requested_by |-> me]}
    /\ \/ \E c \in FreshConvIds :
            /\ conversation' = conversation \cup {NewConversationRow(c, 1)}
            /\ conversation_counter' = [conversation_counter EXCEPT ![c] = InitialNextOffset]
            /\ conversation_member' = [conversation_member EXCEPT ![c] = {me, other}]
            /\ direct_pair' = direct_pair \cup
                  {[user_min |-> UserPair(me, other)[1],
                    user_max |-> UserPair(me, other)[2], conversation_id |-> c]}
            /\ outbox' = Append(outbox,
                  Committed(enqueue_in_tx(OutboxEvent("friendship.new", c, {other},
                      [conversation_id |-> c, other |-> me]))))
       \/ UNCHANGED <<conversation, conversation_counter, conversation_member,
                      direct_pair, outbox>>
    /\ UNCHANGED <<pagingVars, permVars, consVars, authVars, histVars, actorVars, relVars, clock, group_create_idem, chat_group, message, sendVars, pipeVars, hubVars>>

\* ------------------------------------------------ relationship service: groups
\* GroupId(Uuid::new_v4()): an id no claim row carries yet.
FreshGroupIds ==
    IF ~\E r \in group_create_idem : r.proposed_group = "g1" THEN {"g1"}
    ELSE IF ~\E r \in group_create_idem : r.proposed_group = "g2" THEN {"g2"} ELSE {}

\* The claim row of group_create_idem: inserted with status 'pending'; the column
\* conversation_id is not in the INSERT and stays NULL.
ClaimRow(owner, key, g) ==
    [owner_id |-> owner, idem_key |-> key, proposed_group |-> g,
     status |-> "pending", conversation_id |-> "null"]

IdemDupKeyNever(owner, key) == FALSE
\* the duplicate-key error of the claim INSERT: a row for (owner_id, idem_key) exists
IdemDupKey(owner, key) ==
    \E r \in group_create_idem : r.owner_id = owner /\ r.idem_key = key

\* mark_succeeded: UPDATE .. SET status = 'succeeded' WHERE owner_id, idem_key,
\* proposed_group and conversation_id all equal the arguments.  NULL = ? is never true.
mark_succeeded(rows, owner, key, g, c) ==
    {IF /\ r.owner_id = owner /\ r.idem_key = key /\ r.proposed_group = g
        /\ r.conversation_id # "null" /\ r.conversation_id = c
     THEN [r EXCEPT !.status = "succeeded"] ELSE r : r \in rows}

\* mark_failed: UPDATE .. SET status = 'failed' WHERE owner_id, idem_key, proposed_group
mark_failed(rows, owner, key, g) ==
    {IF r.owner_id = owner /\ r.idem_key = key /\ r.proposed_group = g
     THEN [r EXCEPT !.status = "failed"] ELSE r : r \in rows}

\* assign_role_by_name_in_tx: INSERT INTO conversation_member_role (conversation_id,
\* user_id, role_id) .. ON DUPLICATE KEY UPDATE role_id = VALUES(role_id): the row of
\* (conversation_id, user_id) takes the new role, whatever role it had.
assign_role_by_name_in_tx(roles, c, u, role_name) == [roles EXCEPT ![c][u] = role_name]

\* create_group(owner, key) as one step: claim (owner, key), then create_group_internal
\* in one transaction, then mark_succeeded / mark_failed on the claim row.
CreateGroup(owner, key) ==
    /\ ~IdemDupKey(owner, key)
    /\ \E g \in FreshGroupIds :
        \/ \E c \in FreshConvIds :
            /\ conversation' = conversation \cup {NewConversationRow(c, 2)}
            /\ conversation_counter' = [conversation_counter EXCEPT ![c] = InitialNextOffset]
            /\ conversation_member' = [conversation_member EXCEPT ![c] = {owner}]
            /\ conversation_member_role' =
                  assign_role_by_name_in_tx(conversation_member_role, c, owner, "owner")
            /\ chat_group' = chat_group \cup
                  {[group_id |-> g, owner_id |-> owner, conversation_id |-> c]}
            /\ group_create_idem' =
                  mark_succeeded(group_create_idem \cup {ClaimRow(owner, key, g)},
                                 owner, key, g, c)
        \/ /\ group_create_idem' =
                  mark_failed(group_create_idem \cup {ClaimRow(owner, key, g)},
                              owner, key, g)
           /\ UNCHANGED <<conversation, conversation_counter, conversation_member,
                          conversation_member_role, chat_group>>
    /\ UNCHANGED <<pagingVars, permVars, consVars, authVars, histVars, actorVars, call, out, calls, history, clock, friendship, direct_pair, message,
                   outbox, sendVars, pipeVars, hubVars>>

\* ------------------------------------------------ relationship service: calls
\* The relationship calls step by step.  Each request r runs one call at a time; the
\* claim and the reads outside a transaction go to the pool and see committed rows only.
CallOk(c, g, cv) ==
    [status |-> "ok", id |-> c.id, op |-> c.op, me |-> c.me, other |-> c.other,
     key |-> c.key, group_id |-> g, conversation_id |-> cv, error |-> "none",
     after |-> c.after, rival |-> c.rival]
CallErr(c, e) ==
    [status |-> "err", id |-> c.id, op |-> c.op, me |-> c.me, other |-> c.other,
     key |-> c.key, group_id |-> "none", conversation_id |-> "none", error |-> e,
     after |-> c.after, rival |-> c.rival]
\* history: the Ok result of a call
Returned(o) ==
    [op |-> o.op, a |-> IF o.op = "add_friend" THEN UserPair(o.me, o.other)[1] ELSE o.me,
     b |-> IF o.op = "add_friend" THEN UserPair(o.me, o.other)[2] ELSE o.key,
     group_id |-> o.group_id, conversation_id |-> o.conversation_id]
\* the Ok results already returned for the same pair / the same (owner, key)
ReturnedFor(op, a, b) == {h \in history : h.op = op /\ h.a = a /\ h.b = b}
\* the call (by its number) that holds the friendship claim of the pair and is still
\* running its transaction; 0 if none
WinnerInProgress(me, other) ==
    IF \E q \in Requests : /\ call[q].pc = "won" /\ call[q].op = "add_friend"
                           /\ UserPair(call[q].me, call[q].other) = UserPair(me, other)
    THEN call[CHOOSE q \in Requests :
                  /\ call[q].pc = "won" /\ call[q].op = "add_friend"
                  /\ UserPair(call[q].me, call[q].other) = UserPair(me, other)].id
    ELSE 0
BeginCall(op, me, other, key, after, rival) ==
    [pc |-> "idle", id |-> calls + 1, op |-> op, me |-> me, other |-> other, key |-> key,
     group_id |-> "none", conversation_id |-> "none", after |-> after, rival |-> rival]

FriendshipDupKeyNever(me, other) == FALSE
\* the duplicate-key error of the claim INSERT: a friendship row for the pair exists
FriendshipDupKey(me, other) ==
    \E f \in friendship : <<f.user_min, f.user_max>> = UserPair(me, other)

\* friendship_repo.claim(me, other, me): INSERT INTO friendship on the pool
AddFriendClaim(r, me, other) ==
    /\ call[r].pc = "idle"
    /\ calls < MaxCalls
    /\ calls' = calls + 1
    /\ LET c == BeginCall("add_friend", me, other, "none",
                          ReturnedFor("add_friend", UserPair(me, other)[1],
                                      UserPair(me, other)[2]),
                          WinnerInProgress(me, other))
       IN  IF me = other
           THEN /\ out' = [out EXCEPT ![r] = CallErr(c, "Store")]
                /\ UNCHANGED <<call, friendship>>
           ELSE IF FriendshipDupKey(me, other)
           THEN /\ call' = [call EXCEPT ![r] = [c EXCEPT !.pc = "existing"]]
                /\ UNCHANGED <<out, friendship>>
           ELSE /\ friendship' = friendship \cup
                      {[user_min |-> UserPair(me, other)[1],
                        user_max |-> UserPair(me, other)[2], requested_by |-> me]}
                /\ call' = [call EXCEPT ![r] = [c EXCEPT !.pc = "won"]]
                /\ UNCHANGED out
    /\ UNCHANGED <<pagingVars, permVars, consVars, authVars, histVars, actorVars, conversation_member_role, history, clock, direct_pair,
                   group_create_idem, chat_group, conversation, conversation_counter,
                   conversation_member, message, outbox, sendVars, pipeVars, hubVars>>

\* Won: the transaction (direct conversation, direct_pair row, friendship.new event)
\* commits and the call returns Ok(conversation_id)
AddFriendCommit(r) ==
    /\ call[r].pc = "won" /\ call[r].op = "add_friend"
    /\ \E c \in FreshConvIds :
        /\ conversation' = conversation \cup {NewConversationRow(c, 1)}
        /\ conversation_counter' = [conversation_counter EXCEPT ![c] = InitialNextOffset]
        /\ conversation_member' =
              [conversation_member EXCEPT ![c] = {call[r].me, call[r].other}]
        /\ direct_pair' = direct_pair \cup
              {[user_min |-> UserPair(call[r].me, call[r].other)[1],
                user_max |-> UserPair(call[r].me, call[r].other)[2],
                conversation_id |-> c]}
        /\ outbox' = Append(outbox,
              Committed(enqueue_in_tx(OutboxEvent("friendship.new", c, {call[r].other},
                  [conversation_id |-> c, other |-> call[r].me]))))
        /\ out' = [out EXCEPT ![r] = CallOk(call[r], "none", c)]
        /\ history' = history \cup {Returned(CallOk(call[r], "none", c))}
    /\ call' = [call EXCEPT ![r] = IdleCall]
    /\ UNCHANGED <<pagingVars, permVars, consVars, authVars, histVars, actorVars, conversation_member_role, calls, clock, friendship, group_create_idem,
                   chat_group, message, sendVars, pipeVars, hubVars>>

\* Won: a statement of the transaction or its commit fails; the transaction rolls back,
\* the friendship row of the claim stays
AddFriendFail(r) ==
    /\ call[r].pc = "won" /\ call[r].op = "add_friend"
    /\ out' = [out EXCEPT ![r] = CallErr(call[r], "Store")]
    /\ call' = [call EXCEPT ![r] = IdleCall]
    /\ UNCHANGED <<pagingVars, permVars, consVars, authVars, histVars, actorVars, conversation_member_role, calls, history, clock, dbVars, sendVars,
                   pipeVars, hubVars>>

\* get_conversation_id_by_friendship(a, b): SELECT conversation_id FROM direct_pair
\* WHERE user_min = a AND user_max = b, the arguments bound as given
get_conversation_id_by_friendship(a, b) ==
    {p.conversation_id : p \in {p \in direct_pair : p.user_min = a /\ p.user_max = b}}

\* Existing: read the conversation of the pair; no row is "inconsistent friendship state"
AddFriendRead(r) ==
    /\ call[r].pc = "existing" /\ call[r].op = "add_friend"
    /\ LET found == get_conversation_id_by_friendship(call[r].me, call[r].other)
       IN  IF found = {}
           THEN /\ out' = [out EXCEPT ![r] = CallErr(call[r], "Store")]
                /\ UNCHANGED history
           ELSE \E c \in found :
                /\ out' = [out EXCEPT ![r] = CallOk(call[r], "none", c)]
                /\ history' = history \cup {Returned(CallOk(call[r], "none", c))}
    /\ call' = [call EXCEPT ![r] = IdleCall]
    /\ UNCHANGED <<pagingVars, permVars, consVars, authVars, histVars, actorVars, conversation_member_role, calls, clock, dbVars, sendVars, pipeVars,
                   hubVars>>

\* group_repo.get_conversation_id_by_group: fetch_optional on chat_group
get_conversation_id_by_group(g) ==
    {row.conversation_id : row \in {row \in chat_group : row.group_id = g}}

\* The columns the duplicate-key branch of group_idem_repo.claim selects, and the
\* column it then reads the group id from.
ClaimSelectColumns == {"proposed_group", "status", "conversation_id"}
ClaimGroupIdColumn == "group_id"

\* group_idem_repo.claim(owner, key, proposed_gid): INSERT .. status 'pending' on the
\* pool.  On a duplicate key the existing row is selected and decoded; try_get of a
\* column that is not in the row is an error ("uuid decode"), which create_group
\* returns.  A decoded Existing claim goes on to the follower branches of create_group.
CreateGroupClaim(r, owner, key) ==
    /\ call[r].pc = "idle"
    /\ calls < MaxCalls
    /\ calls' = calls + 1
    /\ LET c == BeginCall("create_group", owner, "none", key,
                          ReturnedFor("create_group", owner, key), 0)
       IN  IF IdemDupKey(owner, key)
           THEN LET row == CHOOSE x \in group_create_idem :
                               x.owner_id = owner /\ x.idem_key = key
                    conv == get_conversation_id_by_group(row.proposed_group)
                IN  /\ UNCHANGED <<call, group_create_idem>>
                    /\ IF ClaimGroupIdColumn \notin ClaimSelectColumns
                       THEN /\ out' = [out EXCEPT ![r] = CallErr(c, "Store")]
                            /\ UNCHANGED history
                       ELSE IF row.status = "succeeded" /\ row.conversation_id # "null"
                       THEN /\ out' = [out EXCEPT ![r] =
                                  CallOk(c, row.proposed_group, row.conversation_id)]
                            /\ history' = history \cup
                                  {Returned(CallOk(c, row.proposed_group,
                                                   row.conversation_id))}
                       ELSE IF row.status \in {"succeeded", "pending"} /\ conv # {}
                       THEN \E cv \in conv :
                            /\ out' = [out EXCEPT ![r] =
                                  CallOk(c, row.proposed_group, cv)]
                            /\ history' = history \cup
                                  {Returned(CallOk(c, row.proposed_group, cv))}
                       ELSE /\ out' = [out EXCEPT ![r] = CallErr(c, "Store")]
                            /\ UNCHANGED history
           ELSE \E g \in FreshGroupIds :
                /\ group_create_idem' = group_create_idem \cup {ClaimRow(owner, key, g)}
                /\ call' = [call EXCEPT ![r] = [c EXCEPT !.pc = "won", !.group_id = g]]
                /\ UNCHANGED <<out, history>>
    /\ UNCHANGED <<pagingVars, permVars, consVars, authVars, histVars, actorVars, conversation_member_role, clock, friendship, direct_pair, chat_group,
                   conversation, conversation_counter, conversation_member, message,
                   outbox, sendVars, pipeVars, hubVars>>

\* Won: create_group_internal commits (group conversation, its counter, the chat_group
\* row, the default roles, the owner's role and membership), then the best-effort
\* mark_succeeded
CreateGroupCommit(r) ==
    /\ call[r].pc = "won" /\ call[r].op = "create_group"
    /\ \E c \in FreshConvIds :
        /\ conversation' = conversation \cup {NewConversationRow(c, 2)}
        /\ conversation_counter' = [conversation_counter EXCEPT ![c] = InitialNextOffset]
        /\ conversation_member' = [conversation_member EXCEPT ![c] = {call[r].me}]
        /\ conversation_member_role' =
              assign_role_by_name_in_tx(conversation_member_role, c, call[r].me, "owner")
        /\ chat_group' = chat_group \cup
              {[group_id |-> call[r].group_id, owner_id |-> call[r].me,
                conversation_id |-> c]}
        /\ group_create_idem' =
              mark_succeeded(group_create_idem, call[r].me, call[r].key,
                             call[r].group_id, c)
        /\ out' = [out EXCEPT ![r] = CallOk(call[r], call[r].group_id, c)]
        /\ history' = history \cup {Returned(CallOk(call[r], call[r].group_id, c))}
    /\ call' = [call EXCEPT ![r] = IdleCall]
    /\ UNCHANGED <<pagingVars, permVars, consVars, authVars, histVars, actorVars, calls, clock, friendship, direct_pair, message, outbox, sendVars,
                   pipeVars, hubVars>>

\* Won: create_group_internal fails and rolls back, then the best-effort mark_failed
CreateGroupFail(r) ==
    /\ call[r].pc = "won" /\ call[r].op = "create_group"
    /\ group_create_idem' =
          mark_failed(group_create_idem, call[r].me, call[r].key, call[r].group_id)
    /\ out' = [out EXCEPT ![r] = CallErr(call[r], "Store")]
    /\ call' = [call EXCEPT ![r] = IdleCall]
    /\ UNCHANGED <<pagingVars, permVars, consVars, authVars, histVars, actorVars, conversation_member_role, calls, history, clock, friendship,
                   direct_pair, chat_group, conversation, conversation_counter,
                   conversation_member, message, outbox, sendVars, pipeVars, hubVars>>

\* get_role_by_conversation_id(user, conversation): fetch_one on the pool
get_role_by_conversation_id(u, c) == conversation_member_role[c][u]

\* invite_to_group(group, host, guest) up to the begin of its transaction: resolve the
\* conversation of the group, check that the host holds the owner role
InviteCheck(r, g, host, guest) ==
    /\ call[r].pc = "idle"
    /\ calls < MaxCalls
    /\ calls' = calls + 1
    /\ LET c == [BeginCall("invite_to_group", host, guest, "none", {}, 0)
                    EXCEPT !.group_id = g]
           conv == get_conversation_id_by_group(g)
       IN  IF conv = {}
           THEN /\ out' = [out EXCEPT ![r] = CallErr(c, "Store")]
                /\ UNCHANGED call
           ELSE \E cv \in conv :
                IF get_role_by_conversation_id(host, cv) = "none"
                THEN /\ out' = [out EXCEPT ![r] = CallErr(c, "NotMember")]
                     /\ UNCHANGED call
                ELSE IF get_role_by_conversation_id(host, cv) # "owner"
                THEN /\ out' = [out EXCEPT ![r] = CallErr(c, "NotOwner")]
                     /\ UNCHANGED call
                ELSE /\ call' = [call EXCEPT ![r] =
                           [c EXCEPT !.pc = "invite", !.conversation_id = cv]]
                     /\ UNCHANGED out
    /\ UNCHANGED <<pagingVars, permVars, consVars, authVars, histVars, actorVars, conversation_member_role, history, clock, dbVars, sendVars, pipeVars,
                   hubVars>>

\* list_group_members_in_tx: both of its queries run on the pool (fetch_all(&self.pool)),
\* not on the transaction passed in, so they return the committed rows
list_group_members_in_tx(cv) == conversation_member[cv]

\* the transaction of invite_to_group commits: the guest gets the member role (and the
\* membership), group.new goes to the guest, group.member.new to the members read by
\* list_group_members_in_tx but the host, if there are any
InviteCommit(r) ==
    /\ call[r].pc = "invite"
    /\ LET cv == call[r].conversation_id
           guest == call[r].other
           members == conversation_member[cv] \cup {guest}
           receivers == list_group_members_in_tx(cv) \ {call[r].me}
           group_new == Committed(enqueue_in_tx(OutboxEvent("group.new", cv, {guest},
                            [conversation_id |-> cv, group_id |-> call[r].group_id])))
           member_new == enqueue_in_tx(OutboxEvent("group.member.new", cv, receivers,
                             [conversation_id |-> cv, group_id |-> call[r].group_id,
                              member_id |-> guest])) @@ [event_id |-> Len(outbox) + 2]
       IN  /\ conversation_member_role' =
                 assign_role_by_name_in_tx(conversation_member_role, cv, guest, "member")
           /\ conversation_member' = [conversation_member EXCEPT ![cv] = members]
           /\ outbox' = IF receivers # {}
                        THEN Append(Append(outbox, group_new), member_new)
                        ELSE Append(outbox, group_new)
    /\ out' = [out EXCEPT ![r] = CallOk(call[r], call[r].group_id,
                                        call[r].conversation_id)]
    /\ call' = [call EXCEPT ![r] = IdleCall]
    /\ UNCHANGED <<pagingVars, permVars, consVars, authVars, histVars, actorVars, calls, history, clock, friendship, direct_pair, group_create_idem,
                   chat_group, conversation, conversation_counter, message, sendVars,
                   pipeVars, hubVars>>

\* the transaction of invite_to_group fails and rolls back
InviteFail(r) ==
    /\ call[r].pc = "invite"
    /\ out' = [out EXCEPT ![r] = CallErr(call[r], "Store")]
    /\ call' = [call EXCEPT ![r] = IdleCall]
    /\ UNCHANGED <<pagingVars, permVars, consVars, authVars, histVars, actorVars, conversation_member_role, calls, history, clock, dbVars, sendVars,
                   pipeVars, hubVars>>

\* ------------------------------------------------ conversation service: send
\* Row locks held by the open transaction of session s until commit or rollback.
HoldsCounterLock(s, c) ==
    tx[s].pc \in {"counted", "enqueued"} /\ tx[s].conversation_id = c
HoldsMessageLock(s, m) ==
    tx[s].pc = "enqueued" /\ ~tx[s].dup /\ tx[s].message_id = m
HoldsConversationLock(s, c) ==
    tx[s].pc = "enqueued" /\ tx[s].row.conversation_id = c

\* The message_id of a command is chosen by the client: one it used before, or a new
\* uuid (an id not in use; which one is immaterial, the first is taken).
UsedMessageIds == {p[1] : p \in usedIds}
ClientMessageIds ==
    UsedMessageIds \cup
       (IF "m1" \notin UsedMessageIds THEN {"m1"}
        ELSE IF "m2" \notin UsedMessageIds THEN {"m2"}
        ELSE IF "m3" \notin UsedMessageIds THEN {"m3"} ELSE {})

\* send_message, lines 60-74: begin, membership check (the first consistent read,
\* which fixes the snapshot of the transaction), NotMember return.
SendBegin(s, c, u, content, m) ==
    /\ tx[s].pc = "idle"
    /\ sends < MaxSends
    /\ sends' = sends + 1
    /\ m \in ClientMessageIds
    /\ usedIds' = usedIds \cup {<<m, c>>}
    /\ dupCalls' = IF m \in UsedMessageIds
                   THEN dupCalls \cup {c} \cup {p[2] : p \in {q \in usedIds : q[1] = m}}
                   ELSE dupCalls
    /\ IF membership_exists_in_tx(c, u)
       THEN /\ tx' = [tx EXCEPT ![s] =
                   [IdleTx EXCEPT !.pc = "begun", !.conversation_id = c, !.sender = u,
                                  !.content = content, !.message_id = m,
                                  !.snap = {r.message_id : r \in message}]]
            /\ ret' = [ret EXCEPT ![s] = NoRet]
       ELSE /\ tx' = [tx EXCEPT ![s] = IdleTx]
            /\ ret' = [ret EXCEPT ![s] =
                   [status |-> "err", error |-> "NotMember",
                    request |-> [conversation_id |-> c, sender |-> u,
                                 content |-> content, message_id |-> m]]]
    /\ UNCHANGED <<pagingVars, permVars, consVars, authVars, histVars, actorVars, relVars, clock, dbVars, pipeVars, hubVars>>

\* insert_in_tx step 1: INSERT .. ON DUPLICATE KEY UPDATE next_offset =
\* LAST_INSERT_ID(next_offset + 1); the result is [next_offset, last_insert_id].
\* Without a row the INSERT stores 1 and, no AUTO_INCREMENT column being involved,
\* last_insert_id() is 0.
GrabNextOffset(next_offset) ==
    IF next_offset = 0
    THEN [next_offset |-> 1, last_insert_id |-> 0]
    ELSE [next_offset |-> next_offset + 1, last_insert_id |-> next_offset + 1]

\* mutant: the counter statement takes no row lock
CounterRowNeverLocked(s, c) == TRUE

\* The counter row is locked by the statement until the transaction ends.
CounterRowFree(s, c) == \A t \in Sessions \ {s} : ~HoldsCounterLock(t, c)

SendCounter(s) ==
    /\ tx[s].pc = "begun"
    /\ CounterRowFree(s, tx[s].conversation_id)
    /\ LET g == GrabNextOffset(conversation_counter[tx[s].conversation_id])
       IN tx' = [tx EXCEPT ![s].pc = "counted",
                           ![s].next_offset = g.next_offset,
                           ![s].assigned_off = g.last_insert_id]
    /\ UNCHANGED <<pagingVars, permVars, consVars, authVars, histVars, actorVars, relVars, clock, dbVars, ret, sends, dupCalls, usedIds, pipeVars, hubVars>>

\* mutant: the counter statement runs on the pool, outside the transaction
RollbackCounterKeepsIncrement(t) ==
    IF t.pc \in {"counted", "enqueued"}
    THEN [conversation_counter EXCEPT ![t.conversation_id] = t.next_offset]
    ELSE conversation_counter

\* Dropping the transaction undoes its counter statement (it ran on tx.conn()).
RollbackCounter(t) == conversation_counter

\* insert_in_tx step 2: the message row as inserted (created_at by column default)
InsertedRow(c, sender, content, m, assigned_off) ==
    [message_id |-> m, conversation_id |-> c, message_offset |-> assigned_off,
     sender_id |-> sender, content |-> content, created_at |-> clock]

\* mutant: the record is built from the arguments of the call, not from the row read back
FetchedRowFromArguments(inserted, dup) == inserted

\* insert_in_tx step 3, the row fetched back by message_id after the INSERT: the new
\* row, or on ER_DUP_ENTRY the row already stored under that message_id.
FetchedRow(inserted, dup) == IF dup THEN MessageRow(inserted.message_id) ELSE inserted

\* insert_in_tx, lines 133-140: the record returned
MessageRecord(row) ==
    [message_id |-> row.message_id, conversation_id |-> row.conversation_id,
     message_offset |-> row.message_offset, sender |-> row.sender_id,
     content |-> row.content, created_at |-> row.created_at]

\* send_message, lines 81-88: the members of the requested conversation but the sender
Receivers(c, sender) == conversation_member[c] \ {sender}

\* send_message, lines 93-106: the chat.message.new event
ChatMessageNewEvent(c, record) ==
    OutboxEvent("chat.message.new", c, Receivers(c, record.sender), record)

\* send_message, line 107: the event is written with the transaction
EnqueueChatMessageNew(c, record) == enqueue_in_tx(ChatMessageNewEvent(c, record))

\* insert_in_tx steps 2-4 and send_message lines 81-107.  The INSERT waits for an
\* uncommitted row with the same message_id, the UPDATE of the conversation row for
\* its row lock.  A duplicate committed after the snapshot of this transaction was
\* taken is seen by the INSERT; whether the SELECT that follows sees it depends on
\* the isolation level: it returns the row, or no row (a Store error, and the
\* transaction is dropped).
SendInsert(s) ==
    /\ tx[s].pc = "counted"
    /\ \A t \in Sessions \ {s} : ~HoldsMessageLock(t, tx[s].message_id)
    /\ LET t == tx[s]
           dup == MessageStored(t.message_id)
           row == FetchedRow(InsertedRow(t.conversation_id, t.sender, t.content,
                                         t.message_id, t.assigned_off), dup)
           record == MessageRecord(row)
       IN /\ \A o \in Sessions \ {s} : ~HoldsConversationLock(o, row.conversation_id)
          /\ \/ /\ tx' = [tx EXCEPT ![s].pc = "enqueued", ![s].dup = dup, ![s].row = row,
                                    ![s].event = EnqueueChatMessageNew(t.conversation_id, record)]
                /\ UNCHANGED ret
             \/ /\ dup /\ t.message_id \notin t.snap
                /\ tx' = [tx EXCEPT ![s] = IdleTx]
                /\ ret' = [ret EXCEPT ![s] = [status |-> "err", error |-> "Store"]]
    /\ conversation_counter' = RollbackCounter(tx[s])
    /\ UNCHANGED <<pagingVars, permVars, consVars, authVars, histVars, actorVars, relVars, clock, friendship, direct_pair, group_create_idem, chat_group,
                   conversation, conversation_member, message, outbox,
                   sends, dupCalls, usedIds, pipeVars, hubVars>>

\* insert_in_tx step 4: GREATEST(last_msg_off, ?), GREATEST(COALESCE(last_msg_at, epoch), ?)
AdvanceLast(conv, row) ==
    [conv EXCEPT !.last_msg_off = Max(@, row.message_offset),
                 !.last_msg_at = Max(Coalesce(@, Epoch), row.created_at)]

\* mutant: the event is not written with the transaction
CommitOutboxWithoutEvent(t) == outbox

\* The writes of the transaction of session s, applied at commit.
CommitCounter(t) == [conversation_counter EXCEPT ![t.conversation_id] = t.next_offset]
CommitMessage(t) == IF t.dup THEN message ELSE message \cup {t.row}
CommitConversation(t) ==
    {IF r.conversation_id = t.row.conversation_id THEN AdvanceLast(r, t.row) ELSE r :
        r \in conversation}
CommitOutbox(t) == Append(outbox, Committed(t.event))

\* send_message, lines 109-113: commit, Ok(record)
SendCommit(s) ==
    /\ tx[s].pc = "enqueued"
    /\ conversation_counter' = CommitCounter(tx[s])
    /\ message' = CommitMessage(tx[s])
    /\ conversation' = CommitConversation(tx[s])
    /\ outbox' = CommitOutbox(tx[s])
    /\ ret' = [ret EXCEPT ![s] = [status |-> "ok", record |-> MessageRecord(tx[s].row),
                                  request |-> [conversation_id |-> tx[s].conversation_id,
                                               sender |-> tx[s].sender,
                                               content |-> tx[s].content,
                                               message_id |-> tx[s].message_id],
                                  assigned_off |-> tx[s].assigned_off,
                                  dup |-> tx[s].dup,
                                  stored_before |-> tx[s].message_id \in tx[s].snap]]
    /\ stayed' = IF tx[s].dup THEN stayed
                 ELSE stayed \cup {<<tx[s].message_id, u>> :
                        u \in {v \in tx[s].event.receivers_json : online_users[v].connected}}
    /\ tx' = [tx EXCEPT ![s] = IdleTx]
    /\ UNCHANGED <<pagingVars, permVars, consVars, authVars, histVars, actorVars, relVars, clock, friendship, direct_pair, group_create_idem, chat_group,
                   conversation_member, sends, dupCalls, usedIds, pipeVars,
                   online_users, placed>>

\* A storage error in any statement or in the commit (map_err .. ?): the transaction
\* is dropped, which rolls it back.
SendFail(s) ==
    /\ tx[s].pc \in {"begun", "counted", "enqueued"}
    /\ tx' = [tx EXCEPT ![s] = IdleTx]
    /\ ret' = [ret EXCEPT ![s] = [status |-> "err", error |-> "Store"]]
    /\ conversation_counter' = RollbackCounter(tx[s])
    /\ UNCHANGED <<pagingVars, permVars, consVars, authVars, histVars, actorVars, relVars, clock, friendship, direct_pair, group_create_idem, chat_group,
                   conversation, conversation_member, message, outbox,
                   sends, dupCalls, usedIds, pipeVars, hubVars>>

\* ------------------------------------------------------------ outbox notifier
\* The rows an open notifier transaction has claimed (FOR UPDATE locks them).
Claimed(n) == IF ntx[n].pc = "claimed" THEN {ntx[n].batch[k] : k \in 1..Len(ntx[n].batch)} ELSE {}

\* mutant: the claim does not look at delivered_at
ReadyRowIgnoresDelivered(row) == row.next_attempt_in = 0

\* mutant: an event that was rescheduled is never ready again
ReadyRowOnlyFresh(row) ==
    row.delivered_at = NullTime /\ row.next_attempt_in = 0 /\ row.attempt_count = 0

\* claim_ready_batch_in_tx: WHERE delivered_at IS NULL AND next_attempt_at <= now
ReadyRow(row) == row.delivered_at = NullTime /\ row.next_attempt_in = 0

\* mutant: a plain SELECT, which takes no row locks
ReadyEventsUnlocked(n) == {i \in 1..Len(outbox) : ReadyRow(outbox[i])}

\* .. FOR UPDATE SKIP LOCKED: rows locked by another transaction are passed over
ReadyEvents(n) ==
    {i \in 1..Len(outbox) :
        ReadyRow(outbox[i]) /\ \A o \in Notifiers \ {n} : i \notin Claimed(o)}

\* .. ORDER BY created_at ASC LIMIT ?: the possible result lists; rows with equal
\* created_at come in any order.
ClaimBatches(n, limit) ==
    LET ready == ReadyEvents(n)
        k == Min(limit, Cardinality(ready))
    IN {b \in [1..k -> ready] :
          /\ \A x, y \in 1..k : x < y =>
                b[x] # b[y] /\ outbox[b[x]].created_at <= outbox[b[y]].created_at
          /\ \A i \in ready \ {b[x] : x \in 1..k} :
                \A x \in 1..k : outbox[b[x]].created_at <= outbox[i].created_at}

\* build_envelope and the record handed to the producer; event_id is kept with the
\* record to tell the publishes of different events apart.
build_envelope(receivers_json, payload_json) == [receivers |-> receivers_json, body |-> payload_json]
BrokerRecord(row) ==
    [key |-> row.partition_key, payload |-> build_envelope(row.receivers_json, row.payload_json),
     event_id |-> row.event_id]

\* tick_once, lines 47-53: begin, claim a batch.  An empty batch commits and sleeps,
\* which changes nothing.
NotifierClaim(n) ==
    /\ ntx[n].pc = "idle"
    /\ ReadyEvents(n) # {}
    /\ \E b \in ClaimBatches(n, BatchLimit) :
          ntx' = [ntx EXCEPT ![n] = [pc |-> "claimed", batch |-> b, marks |-> <<>>]]
    /\ UNCHANGED <<pagingVars, permVars, consVars, authVars, histVars, actorVars, relVars, clock, dbVars, sendVars, topic, position, rollbacks, hubVars>>

\* the event of the batch that tick_once's loop is at
Pending(n) == ntx[n].pc = "claimed" /\ Len(ntx[n].marks) < Len(ntx[n].batch)
CurrentEvent(n) == ntx[n].batch[Len(ntx[n].marks) + 1]

\* mark_delivered_in_tx / reschedule_in_tx: the UPDATE, held in the transaction
mark_delivered_in_tx(delivered_at) ==
    [delivered |-> TRUE, delivered_at |-> delivered_at, next_attempt_in |-> 0]
\* mutant: the Err arm marks the event delivered as well
RescheduleMarksDelivered(next_attempt_in) ==
    [delivered |-> TRUE, delivered_at |-> clock, next_attempt_in |-> 0]

reschedule_in_tx(next_attempt_in) ==
    [delivered |-> FALSE, delivered_at |-> NullTime, next_attempt_in |-> next_attempt_in]

\* tick_once, lines 68-77: the publish succeeds, the event is marked delivered
PublishOk(n) ==
    /\ Pending(n)
    /\ topic' = Append(topic, BrokerRecord(outbox[CurrentEvent(n)]))
    /\ ntx' = [ntx EXCEPT ![n].marks = Append(@, mark_delivered_in_tx(clock))]
    /\ UNCHANGED <<pagingVars, permVars, consVars, authVars, histVars, actorVars, relVars, clock, dbVars, sendVars, position, rollbacks, hubVars>>

\* tick_once, lines 78-84: the publish fails, the event is rescheduled
PublishErr(n) ==
    /\ Pending(n)
    /\ outbox[CurrentEvent(n)].attempt_count < MaxAttempts
    /\ ntx' = [ntx EXCEPT ![n].marks = Append(@, reschedule_in_tx(BackoffSecs))]
    /\ UNCHANGED <<pagingVars, permVars, consVars, authVars, histVars, actorVars, relVars, clock, dbVars, sendVars, topic, position, rollbacks, hubVars>>

\* mutant: the reschedule leaves attempt_count as it was
MarkedKeepsAttemptCount(row, mark) ==
    IF mark.delivered
    THEN [row EXCEPT !.delivered_at = mark.delivered_at, !.last_error = "null"]
    ELSE [row EXCEPT !.next_attempt_in = mark.next_attempt_in,
                     !.last_error = "publish failed"]

\* the outbox row after the UPDATE of the transaction
Marked(row, mark) ==
    IF mark.delivered
    THEN [row EXCEPT !.delivered_at = mark.delivered_at, !.last_error = "null"]
    ELSE [row EXCEPT !.attempt_count = @ + 1, !.next_attempt_in = mark.next_attempt_in,
                     !.last_error = "publish failed"]

\* tick_once, line 88: commit
NotifierCommit(n) ==
    /\ ntx[n].pc = "claimed"
    /\ Len(ntx[n].marks) = Len(ntx[n].batch)
    /\ outbox' = [i \in 1..Len(outbox) |->
                    IF \E k \in 1..Len(ntx[n].batch) : ntx[n].batch[k] = i
                    THEN Marked(outbox[i],
                                ntx[n].marks[CHOOSE k \in 1..Len(ntx[n].batch) : ntx[n].batch[k] = i])
                    ELSE outbox[i]]
    /\ ntx' = [ntx EXCEPT ![n] = IdleNtx]
    /\ UNCHANGED <<pagingVars, permVars, consVars, authVars, histVars, actorVars, relVars, clock, friendship, direct_pair, group_create_idem, chat_group, conversation,
                   conversation_counter, conversation_member, message,
                   sendVars, topic, position, rollbacks, hubVars>>

\* tick_once returns an error (a statement or the commit failed: `?`): the
\* transaction is dropped, its marks are lost, run logs the error and loops.
NotifierAbort(n) ==
    /\ ntx[n].pc = "claimed"
    /\ rollbacks < MaxRollbacks
    /\ rollbacks' = rollbacks + 1
    /\ ntx' = [ntx EXCEPT ![n] = IdleNtx]
    /\ UNCHANGED <<pagingVars, permVars, consVars, authVars, histVars, actorVars, relVars, clock, dbVars, sendVars, topic, position, hubVars>>

\* run, lines 94-99: the token is cancelled (Server::shutdown); select! drops the
\* tick_once future wherever it is, and with it the transaction.
NotifierCancel(n) ==
    /\ ntx[n].pc \in {"idle", "claimed"}
    /\ ntx[n].pc = "claimed" => rollbacks < MaxRollbacks
    /\ rollbacks' = IF ntx[n].pc = "claimed" THEN rollbacks + 1 ELSE rollbacks
    /\ ntx' = [ntx EXCEPT ![n] = [IdleNtx EXCEPT !.pc = "stopped"]]
    /\ UNCHANGED <<pagingVars, permVars, consVars, authVars, histVars, actorVars, relVars, clock, dbVars, sendVars, topic, position, hubVars>>

\* Server::new in a new process, after the old one has exited: the notifier and the
\* consumer run again, on a new topic (chat.event.{run_id}) with a new consumer
\* group, and the session hub is empty.
ServerStart ==
    /\ \A n \in ServerNotifiers : ntx[n].pc = "stopped"
    /\ \A s \in Sessions : tx[s].pc = "idle"
    /\ ntx' = [n \in Notifiers |-> IF n \in ServerNotifiers THEN IdleNtx ELSE ntx[n]]
    /\ topic' = <<>>
    /\ position' = 0
    /\ online_users' = [u \in Users |-> NoRecord]
    /\ stayed' = {}
    /\ UNCHANGED <<pagingVars, permVars, consVars, authVars, histVars, actorVars, relVars, clock, dbVars, sendVars, rollbacks, placed>>

\* One second passes.
Backoffs ==
    {outbox[i].next_attempt_in : i \in 1..Len(outbox)} \cup
    UNION {{ntx[n].marks[k].next_attempt_in : k \in 1..Len(ntx[n].marks)} : n \in Notifiers}
Tick ==
    /\ clock < MaxClock \/ \E d \in Backoffs : d > 0
    /\ clock' = IF clock < MaxClock THEN clock + 1 ELSE clock
    /\ outbox' = [i \in 1..Len(outbox) |->
                    [outbox[i] EXCEPT !.next_attempt_in = Max(@ - 1, 0)]]
    /\ ntx' = [n \in Notifiers |->
                 [ntx[n] EXCEPT !.marks = [k \in 1..Len(ntx[n].marks) |->
                     [ntx[n].marks[k] EXCEPT !.next_attempt_in = Max(@ - 1, 0)]]]]
    /\ UNCHANGED <<pagingVars, permVars, consVars, authVars, histVars, actorVars, relVars, friendship, direct_pair, group_create_idem, chat_group, conversation,
                   conversation_counter, conversation_member, message,
                   sendVars, topic, position, rollbacks, hubVars>>

\* ------------------------------------------------------------------ session hub
\* The process-scoped token is not cancelled.
ServerUp == \A n \in ServerNotifiers : ntx[n].pc # "stopped"

\* accept_connection: a record with an empty mailbox channel is inserted for the user
Connect(u) ==
    /\ ServerUp
    /\ ~online_users[u].connected
    /\ online_users' = [online_users EXCEPT ![u] = [connected |-> TRUE, mailbox |-> <<>>]]
    /\ UNCHANGED <<pagingVars, permVars, consVars, authVars, histVars, actorVars, relVars, clock, dbVars, sendVars, pipeVars, placed, stayed>>

\* client_actor, lines 162-170: a task of the connection ended, the record is removed
Disconnect(u) ==
    /\ online_users[u].connected
    /\ online_users' = [online_users EXCEPT ![u] = NoRecord]
    /\ stayed' = {p \in stayed : p[2] # u}
    /\ UNCHANGED <<pagingVars, permVars, consVars, authVars, histVars, actorVars, relVars, clock, dbVars, sendVars, pipeVars, placed>>

\* outbound_sender: the next mailbox message is written to the client
OutboundSend(u) ==
    /\ online_users[u].connected
    /\ online_users[u].mailbox # <<>>
    /\ online_users' = [online_users EXCEPT ![u].mailbox = Tail(@)]
    /\ UNCHANGED <<pagingVars, permVars, consVars, authVars, histVars, actorVars, relVars, clock, dbVars, sendVars, pipeVars, placed, stayed>>

\* SessionHub::enqueue: try_send on the mailbox of the receiver's record
enqueue(receiver, event) ==
    IF ~online_users[receiver].connected THEN "not connected"
    ELSE IF Len(online_users[receiver].mailbox) >= MAILBOX_CAP THEN "backpressure retry"
    ELSE "ok"

\* ---------------------------------------------- broker consumer, fan-out handler
\* ConnFanoutHandler::handle: the body goes to every receiver of the envelope; an
\* enqueue error is logged and the outcome is Commit whatever happened.
HandleOutcome(envelope) == "Commit"

\* KafkaConsumer::run, lines 83-113: the next record of the topic is handed to the
\* handler; the stream moves on whatever the outcome.
Consume ==
    /\ ServerUp
    /\ position < Len(topic)
    /\ LET envelope == topic[position + 1].payload
           got == {r \in envelope.receivers : enqueue(r, envelope.body) = "ok"}
       IN /\ online_users' = [u \in Users |->
                IF u \in got
                THEN [online_users[u] EXCEPT !.mailbox = Append(@, envelope.body)]
                ELSE online_users[u]]
          /\ placed' = [p \in MsgIds \X Users |->
                IF p[2] \in got /\ "message_id" \in DOMAIN envelope.body
                                /\ envelope.body.message_id = p[1]
                THEN placed[p] + 1 ELSE placed[p]]
          /\ HandleOutcome(envelope) \in {"Commit", "SkipCommit", "Retry"}
    /\ position' = position + 1
    /\ UNCHANGED <<pagingVars, permVars, consVars, authVars, histVars, actorVars, relVars, clock, dbVars, sendVars, ntx, topic, rollbacks, stayed>>

\* KafkaConsumer::run with any handler: stream.next() yields the record after the last
\* one it yielded, whatever became of that one; an Ok(Commit | SkipCommit) commits the
\* record's offset + 1 for the group, Ok(Retry) and Err sleep and go on.  next counts
\* the records the stream has yielded, committed is the group's committed position,
\* failed/handled are the records whose last handling failed/succeeded.
HandleOutcomes == {"Commit", "SkipCommit", "Retry", "Err"}
ConsumerRun(outcome) ==
    /\ consumer.next < Len(topic)
    /\ LET m == consumer.next + 1
       IN  consumer' =
             IF outcome \in {"Commit", "SkipCommit"}
             THEN [next |-> m, committed |-> m,
                   failed |-> consumer.failed \ {m}, handled |-> consumer.handled \cup {m}]
             ELSE [consumer EXCEPT !.next = m, !.failed = @ \cup {m}]
    /\ UNCHANGED <<pagingVars, permVars, clock, dbVars, sendVars, pipeVars, hubVars, relVars, actorVars, histVars,
                   authVars>>

\* ------------------------------------------------ friendship repo: list_friends
\* SQL values with their type: a UUID column or parameter, a DATETIME one
Uuid(v) == [t |-> "uuid", v |-> v]
DateTime(v) == [t |-> "datetime", v |-> v]
\* = and < of the query: operands of different kinds (a DATETIME against a user id)
\* never compare equal or less
SqlEq(a, b) == a.t = b.t /\ a.v = b.v
SqlLt(a, b) == a.t = b.t /\ a.v < b.v

FriendIds == 1..MaxUserId
\* user.username by user id, unique; its order is not the order of the ids
Username(id) == IF id % 2 = 0 THEN id - 1 ELSE id + 1
\* the accepted friendship rows of a table in which me has the friends fs: user_min <
\* user_max, created_at from since
FriendshipRows(me, fs, since) ==
    {[user_min |-> Min(me, f), user_max |-> Max(me, f), created_at |-> since[f]] : f \in fs}

\* IF(? = f.user_min, f.user_max, f.user_min)
OtherUser(p, f) == IF SqlEq(p, Uuid(f.user_min)) THEN f.user_max ELSE f.user_min

\* ORDER BY f.created_at DESC, u.username ASC LIMIT ?
RECURSIVE OrderFriendsLimit(_, _)
OrderFriendsLimit(rows, n) ==
    IF n = 0 \/ rows = {} THEN <<>>
    ELSE LET first == CHOOSE r \in rows : \A q \in rows :
                         \/ q.since < r.since
                         \/ q.since = r.since /\ Username(r.other_user) <= Username(q.other_user)
         IN  <<first>> \o OrderFriendsLimit(rows \ {first}, n - 1)

\* the query without cursor, with its five parameters in the order of the statement
ListFriendsFirst(rows, p1, p2, p3, p4, p5) ==
    OrderFriendsLimit(
        {[other_user |-> OtherUser(p1, f), since |-> f.created_at] :
            f \in {f \in rows : SqlEq(p3, Uuid(f.user_min)) \/ SqlEq(p4, Uuid(f.user_max))}},
        p5)

\* the query with cursor, with its nine parameters in the order of the statement
ListFriendsAfter(rows, p1, p2, p3, p4, p5, p6, p7, p8, p9) ==
    OrderFriendsLimit(
        {[other_user |-> OtherUser(p1, f), since |-> f.created_at] :
            f \in {f \in rows :
                     /\ SqlEq(p3, Uuid(f.user_min)) \/ SqlEq(p4, Uuid(f.user_max))
                     /\ \/ SqlLt(DateTime(f.created_at), p5)
                        \/ /\ SqlEq(DateTime(f.created_at), p6)
                           /\ SqlLt(Uuid(OtherUser(p7, f)), p8)}},
        p9)

\* list_friends_with_conversations: the arguments as the two query_as! calls pass them
list_friends_with_conversations(rows, user_id, page_size, after) ==
    IF ~after.some
    THEN ListFriendsFirst(rows, Uuid(user_id), Uuid(user_id), Uuid(user_id), Uuid(user_id),
                          page_size)
    ELSE ListFriendsAfter(rows, Uuid(user_id), Uuid(user_id), Uuid(user_id),
                          DateTime(after.since), DateTime(after.since), Uuid(user_id),
                          Uuid(after.other_user), Uuid(user_id), page_size)

\* a client starts paging: the friends table of the user and the page size
PagingStart(me, fs, since, page_size) ==
    /\ paging.pc = "none"
    /\ paging' = [pc |-> "paging", user_id |-> me, rows |-> FriendshipRows(me, fs, since),
                  page_size |-> page_size, after |-> NoFriendCursor, seen |-> <<>>]
    /\ UNCHANGED <<clock, dbVars, sendVars, pipeVars, hubVars, relVars, actorVars, histVars,
                   authVars, consVars, permVars>>

\* the client asks for the next page with the cursor of the last row it got; a page
\* shorter than page_size is the last one
PagingNext ==
    /\ paging.pc = "paging"
    /\ LET got == list_friends_with_conversations(paging.rows, paging.user_id,
                                                  paging.page_size, paging.after)
       IN  paging' = [paging EXCEPT
                 !.seen = @ \o [i \in 1..Len(got) |-> got[i].other_user],
                 !.after = IF got = <<>> THEN @
                           ELSE [some |-> TRUE, since |-> got[Len(got)].since,
                                 other_user |-> got[Len(got)].other_user],
                 !.pc = IF Len(got) < paging.page_size THEN "done" ELSE "paging"]
    /\ UNCHANGED <<clock, dbVars, sendVars, pipeVars, hubVars, relVars, actorVars, histVars,
                   authVars, consVars, permVars>>

\* ------------------------------------------------ conversation service: history
\* before.offset.0 as i64: the u64 of the cursor reinterpreted as a signed integer of
\* the same width (CursorBits bits here)
U64Max == 2^CursorBits - 1
AsI64(x) == IF x >= 2^(CursorBits - 1) THEN x - 2^CursorBits ELSE x
Cursors == {NoCursor} \cup {[some |-> TRUE, offset |-> o] : o \in 0..U64Max}

\* the rows the SELECT of list_before_in_tx matches
SelectedRows(c, before) ==
    {r \in message : /\ r.conversation_id = c
                     /\ before.some => r.message_offset < AsI64(before.offset)}
\* ORDER BY message_offset DESC LIMIT n
RECURSIVE OrderDescLimit(_, _)
OrderDescLimit(rows, n) ==
    IF n = 0 \/ rows = {} THEN <<>>
    ELSE LET top == CHOOSE r \in rows : \A q \in rows : q.message_offset <= r.message_offset
         IN  <<top>> \o OrderDescLimit(rows \ {top}, n - 1)
\* v.reverse()
Reverse(v) == [i \in 1..Len(v) |-> v[Len(v) + 1 - i]]
\* list_before_in_tx: the page, oldest first, as MessageRecords
list_before_in_tx(c, page_size, before) ==
    LET v == Reverse(OrderDescLimit(SelectedRows(c, before), page_size))
    IN  [i \in 1..Len(v) |-> MessageRecord(v[i])]

\* get_history(user, conversation, page_size, before): membership check, then the page
GetHistory(u, c, page_size, before) ==
    /\ page' = IF membership_exists_in_tx(c, u)
               THEN [status |-> "ok", user |-> u, conversation_id |-> c,
                     page_size |-> page_size, before |-> before,
                     result |-> list_before_in_tx(c, page_size, before)]
               ELSE [status |-> "NotMember", user |-> u, conversation_id |-> c,
                     page_size |-> page_size, before |-> before, result |-> <<>>]
    /\ UNCHANGED <<pagingVars, permVars, consVars, authVars, clock, dbVars, sendVars, pipeVars, hubVars, relVars, actorVars>>

\* ------------------------------------------------ auth service: refresh tokens
\* new_jti(): a fresh uuid
UnusedJtis == {j \in Jtis : \A t \in auth.issued : t.jti # j}
new_jti == CHOOSE j \in UnusedJtis : TRUE

\* login: issue tokens carrying a new jti and save the jti
Login(u) ==
    /\ auth.logins < MaxLogins
    /\ UnusedJtis # {}
    /\ session_store' = [session_store EXCEPT ![new_jti] = u]
    /\ auth' = [auth EXCEPT !.logins = @ + 1,
                            !.issued = @ \cup {[jti |-> new_jti, user_id |-> u]}]
    /\ UNCHANGED <<pagingVars, permVars, consVars, clock, dbVars, sendVars, pipeVars, hubVars, relVars, actorVars, histVars,
                   refresh_calls>>

\* refresh_token up to the GET of check_refresh_jti: the token verifies, the user exists,
\* an absent key ends the call with TokenInvalid
RefreshGet(k) ==
    /\ refresh_calls[k].pc = "idle"
    /\ auth.calls < MaxRefreshCalls
    /\ \E t \in auth.issued :
          refresh_calls' = [refresh_calls EXCEPT ![k] =
              IF session_store[t.jti] = "none"
              THEN [pc |-> "idle", user_id |-> t.user_id, jti |-> t.jti,
                    result |-> "TokenInvalid", refresh_token |-> "none"]
              ELSE [pc |-> "found", user_id |-> t.user_id, jti |-> t.jti,
                    result |-> "none", refresh_token |-> "none"]]
    /\ auth' = [auth EXCEPT !.calls = @ + 1]
    /\ UNCHANGED <<pagingVars, permVars, consVars, clock, dbVars, sendVars, pipeVars, hubVars, relVars, actorVars, histVars,
                   session_store>>

\* the DEL of check_refresh_jti (consume = true)
RefreshDel(k) ==
    /\ refresh_calls[k].pc = "found"
    /\ session_store' = [session_store EXCEPT ![refresh_calls[k].jti] = "none"]
    /\ refresh_calls' = [refresh_calls EXCEPT ![k].pc = "consumed"]
    /\ UNCHANGED <<pagingVars, permVars, consVars, clock, dbVars, sendVars, pipeVars, hubVars, relVars, actorVars, histVars,
                   auth>>

\* the key save_refresh_jti writes after the rotation: the jti of the presented token
SavedJti(k) == refresh_calls[k].jti

\* issue tokens with a new jti, save_refresh_jti(user_id, &jti, ttl), return the tokens
RefreshIssue(k) ==
    /\ refresh_calls[k].pc = "consumed"
    /\ UnusedJtis # {}
    /\ session_store' = [session_store EXCEPT ![SavedJti(k)] = refresh_calls[k].user_id]
    /\ refresh_calls' = [refresh_calls EXCEPT ![k].pc = "idle", ![k].result = "Ok",
                                              ![k].refresh_token = new_jti]
    /\ auth' = [auth EXCEPT
                   !.issued = @ \cup {[jti |-> new_jti, user_id |-> refresh_calls[k].user_id]},
                   !.ok[refresh_calls[k].jti] = @ + 1]
    /\ UNCHANGED <<pagingVars, permVars, consVars, clock, dbVars, sendVars, pipeVars, hubVars, relVars, actorVars, histVars>>

\* ------------------------------------------------ session hub: client actors
\* The hub connection by connection.  Every accept_connection spawns a client actor with
\* its own cancellation token, control channel and mailbox channel; the actor runs an
\* outbound sender and an inbound receiver, and the receiver spawns a handler task per
\* command.  Both channels have the capacity MAILBOX_CAP.
Frame(kind, conversation_id, message_id, message_offset, created_at) ==
    [kind |-> kind, conversation_id |-> conversation_id, message_id |-> message_id,
     message_offset |-> message_offset, created_at |-> created_at]
\* S2CEvent::ChatMessageACK of a MessageRecord
ChatMessageACK(record) ==
    Frame("ack", record.conversation_id, record.message_id, record.message_offset,
          record.created_at)
Pong == Frame("pong", "none", "none", 0, NullTime)
EventFrame(e) == Frame("event", "none", e, 0, NullTime)
\* the events of a run, in the order they are enqueued
HubEvents == <<"e1", "e2", "e3", "e4">>

\* the receivers of the two channels live as long as the outbound sender runs
ChannelOpen(a) == actor[a].sender = "running"
UnusedActors ==
    {a \in ActorIds : actor[a].status = "unused" /\
                      \A b \in ActorIds : b < a => actor[b].status # "unused"}

\* accept_connection: a new token and new channels, the actor is spawned, the record
\* is inserted under the user id (DashMap::insert drops the record it replaces: the
\* handle and the token of the previous actor are dropped, neither is cancelled)
HubAccept(u) ==
    /\ hub.pc = "running"
    /\ \E a \in UnusedActors :
        /\ actor' = [actor EXCEPT ![a] =
              [NoActor EXCEPT !.user = u, !.status = "running", !.socket = "open",
                              !.sender = "running", !.receiver = "running"]]
        /\ client_records' = [client_records EXCEPT ![u] = a]
    /\ UNCHANGED <<pagingVars, permVars, consVars, authVars, histVars, task, hub, enq, clock, dbVars, sendVars, pipeVars, hubVars, relVars>>

\* the client closes the connection: the inbound stream ends, writes fail (once the
\* token is cancelled neither task looks at the socket again)
ClientClose(a) ==
    /\ actor[a].status = "running" /\ actor[a].socket = "open" /\ ~actor[a].token
    /\ actor' = [actor EXCEPT ![a].socket = "closed"]
    /\ UNCHANGED <<pagingVars, permVars, consVars, authVars, histVars, client_records, task, hub, enq, clock, dbVars, sendVars, pipeVars,
                   hubVars, relVars>>

\* inbound_receiver, select! (biased): the token is cancelled, the loop breaks
ReceiverCancelled(a) ==
    /\ actor[a].receiver = "running" /\ actor[a].token
    /\ actor' = [actor EXCEPT ![a].receiver = "draining"]
    /\ UNCHANGED <<pagingVars, permVars, consVars, authVars, histVars, client_records, task, hub, enq, clock, dbVars, sendVars, pipeVars,
                   hubVars, relVars>>

\* inbound_receiver: the stream ended (None or Err), the loop breaks and the token is
\* cancelled
ReceiverStreamEnd(a) ==
    /\ actor[a].receiver = "running" /\ ~actor[a].token /\ actor[a].socket = "closed"
    /\ actor' = [actor EXCEPT ![a].receiver = "draining", ![a].token = TRUE]
    /\ UNCHANGED <<pagingVars, permVars, consVars, authVars, histVars, client_records, task, hub, enq, clock, dbVars, sendVars, pipeVars,
                   hubVars, relVars>>

\* inbound_receiver: a chat.message.send command arrives, its handler task is spawned
InboundCommand(a, s, c, m) ==
    /\ actor[a].receiver = "running" /\ ~actor[a].token /\ actor[a].socket = "open"
    /\ hub.commands < MaxCommands
    /\ SessionUser[s] = actor[a].user
    /\ task[s].pc \in {"none", "done"} /\ tx[s].pc = "idle"
    /\ task' = [task EXCEPT ![s] =
          [pc |-> "spawned", actor |-> a, conversation_id |-> c, message_id |-> m,
           acks |-> <<>>]]
    /\ ret' = [ret EXCEPT ![s] = NoRet]
    /\ hub' = [hub EXCEPT !.commands = @ + 1]
    /\ UNCHANGED <<pagingVars, permVars, consVars, authVars, histVars, actor, client_records, enq, clock, dbVars, tx, sends, dupCalls,
                   usedIds, pipeVars, hubVars, relVars>>

\* handle_incoming_message, ChatMessageSend: the call of send_message
HandlerSend(s) ==
    /\ task[s].pc = "spawned" /\ ret[s].status = "none" /\ tx[s].pc = "idle"
    /\ SendBegin(s, task[s].conversation_id, SessionUser[s], SessionContent[s],
                 task[s].message_id)

AckFramesOnError(s) ==
    IF ret[s].status = "ok" THEN <<ChatMessageACK(ret[s].record)>>
    ELSE <<Frame("ack", task[s].conversation_id, task[s].message_id, 0, NullTime)>>
\* handle_incoming_message, match result: Ok(record) makes one ACK, Err(e) none
AckFrames(s) ==
    IF ret[s].status = "ok" THEN <<ChatMessageACK(ret[s].record)>> ELSE <<>>

\* handle_incoming_message after send_message returned: the ACK is sent on the control
\* channel (send().await waits for room; the error of a closed channel is dropped by
\* `let _ =`)
HandlerDone(s) ==
    /\ task[s].pc = "spawned" /\ ret[s].status # "none" /\ tx[s].pc = "idle"
    /\ IF AckFrames(s) # <<>> /\ ChannelOpen(task[s].actor)
       THEN /\ Len(actor[task[s].actor].control) < MAILBOX_CAP
            /\ actor' = [actor EXCEPT ![task[s].actor].control =
                  Append(@, AckFrames(s)[1])]
            /\ task' = [task EXCEPT ![s].pc = "done", ![s].acks = AckFrames(s)]
       ELSE /\ task' = [task EXCEPT ![s].pc = "done"]
            /\ UNCHANGED actor
    /\ UNCHANGED <<pagingVars, permVars, consVars, authVars, histVars, client_records, hub, enq, clock, dbVars, sendVars, pipeVars, hubVars,
                   relVars>>

\* handle_incoming_message, Ping: a Pong goes on the control channel
InboundPing(a) ==
    /\ actor[a].receiver = "running" /\ ~actor[a].token /\ actor[a].socket = "open"
    /\ hub.pings < MaxPings
    /\ hub' = [hub EXCEPT !.pings = @ + 1]
    /\ IF ChannelOpen(a)
       THEN /\ Len(actor[a].control) < MAILBOX_CAP
            /\ actor' = [actor EXCEPT ![a].control = Append(@, Pong)]
       ELSE UNCHANGED actor
    /\ UNCHANGED <<pagingVars, permVars, consVars, authVars, histVars, client_records, task, enq, clock, dbVars, sendVars, pipeVars, hubVars,
                   relVars>>

\* handle_incoming_message, Close: the handler cancels the token of the actor
InboundClose(a) ==
    /\ actor[a].receiver = "running" /\ ~actor[a].token /\ actor[a].socket = "open"
    /\ actor' = [actor EXCEPT ![a].token = TRUE]
    /\ UNCHANGED <<pagingVars, permVars, consVars, authVars, histVars, client_records, task, hub, enq, clock, dbVars, sendVars, pipeVars,
                   hubVars, relVars>>

\* inbound_receiver after the loop: every handler task has been joined
ReceiverDrained(a) ==
    /\ actor[a].receiver = "draining"
    /\ \A s \in Sessions : task[s].pc = "spawned" => task[s].actor # a
    /\ inflight[a].running = 0
    /\ actor' = [actor EXCEPT ![a].receiver = "ended"]
    /\ UNCHANGED <<pagingVars, permVars, consVars, authVars, histVars, client_records, task, hub, enq, clock, dbVars, sendVars, pipeVars,
                   hubVars, relVars>>

\* ---- inbound_receiver with its two semaphores; handler tasks by number
ThrottleNotice == Frame("Too many messages", "none", "none", 0, NullTime)

\* mutant: the worker permit is not given back when the join permit is missing
PermitsKeptOnSkip(permits) == permits - 1
\* the worker permit is dropped at `continue`
PermitsAfterSkip(permits) == permits

\* inbound_receiver, lines 222-267: a frame is read.  No worker permit: the throttle
\* notice is sent with send().await, which returns at once when the channel has room
\* or is closed and waits when it is full.  No join permit: the frame is skipped.
\* Otherwise the handler task is spawned with the worker permit.
FrameArrives(a) ==
    /\ actor[a].receiver = "running" /\ ~actor[a].token /\ actor[a].socket = "open"
    /\ frames < MaxFrames
    /\ frames' = frames + 1
    /\ IF inflight[a].permits = 0
       THEN /\ inflight' = [inflight EXCEPT ![a].last = "throttled"]
            /\ actor' = IF ~ChannelOpen(a) THEN actor
                        ELSE IF Len(actor[a].control) < MAILBOX_CAP
                        THEN [actor EXCEPT ![a].control = Append(@, ThrottleNotice)]
                        ELSE [actor EXCEPT ![a].receiver = "throttling"]
       ELSE IF inflight[a].join_permits = 0
       THEN /\ inflight' = [inflight EXCEPT ![a].last = "skipped",
                                            ![a].permits = PermitsAfterSkip(@)]
            /\ UNCHANGED actor
       ELSE /\ inflight' = [inflight EXCEPT ![a].last = "spawned",
                                            ![a].permits = @ - 1,
                                            ![a].join_permits = @ - 1,
                                            ![a].running = @ + 1]
            /\ UNCHANGED actor
    /\ UNCHANGED <<pagingVars, client_records, task, hub, enq, clock, dbVars, sendVars, pipeVars,
                   hubVars, relVars, histVars, authVars, consVars>>

\* inbound_receiver, line 237: the send of the throttle notice returns, with the
\* notice queued once the channel has room, or with an error once it is closed
ThrottleResume(a) ==
    /\ actor[a].receiver = "throttling"
    /\ \/ /\ ~ChannelOpen(a)
          /\ actor' = [actor EXCEPT ![a].receiver = "running"]
       \/ /\ ChannelOpen(a) /\ Len(actor[a].control) < MAILBOX_CAP
          /\ actor' = [actor EXCEPT ![a].receiver = "running",
                                    ![a].control = Append(@, ThrottleNotice)]
    /\ UNCHANGED <<pagingVars, client_records, task, hub, enq, clock, dbVars, sendVars, pipeVars,
                   hubVars, relVars, histVars, authVars, consVars, permVars>>

\* a handler task completes or times out: with a reply on the control channel (Ping,
\* malformed text) or without one; its worker permit is dropped with it
WorkerDone(a, reply) ==
    /\ inflight[a].running > 0
    /\ IF reply /\ ChannelOpen(a)
       THEN /\ Len(actor[a].control) < MAILBOX_CAP
            /\ actor' = [actor EXCEPT ![a].control = Append(@, Pong)]
       ELSE UNCHANGED actor
    /\ inflight' = [inflight EXCEPT ![a].running = @ - 1, ![a].permits = @ + 1,
                                    ![a].finished = @ + 1]
    /\ UNCHANGED <<pagingVars, client_records, task, hub, enq, clock, dbVars, sendVars, pipeVars,
                   hubVars, relVars, histVars, authVars, consVars, frames>>

\* inbound_receiver, lines 270-275: a finished task is joined, its join permit added
JoinNext(a) ==
    /\ actor[a].receiver = "running" /\ ~actor[a].token
    /\ inflight[a].finished > 0
    /\ inflight' = [inflight EXCEPT ![a].finished = @ - 1, ![a].join_permits = @ + 1]
    /\ UNCHANGED <<pagingVars, actor, client_records, task, hub, enq, clock, dbVars, sendVars, pipeVars,
                   hubVars, relVars, histVars, authVars, consVars, frames>>

NextSourceMailboxFirst(a) ==
    IF actor[a].mailbox # <<>> THEN "mailbox"
    ELSE IF actor[a].control # <<>> THEN "control" ELSE "none"
\* outbound_sender, select! (biased) after the cancellation branch: the control
\* channel is polled before the mailbox channel
NextSource(a) ==
    IF actor[a].control # <<>> THEN "control"
    ELSE IF actor[a].mailbox # <<>> THEN "mailbox" ELSE "none"

\* outbound_sender: the token is cancelled, the loop ends and the receivers of both
\* channels are dropped
SenderCancelled(a) ==
    /\ actor[a].sender = "running" /\ actor[a].token
    /\ actor' = [actor EXCEPT ![a].sender = "ended", ![a].control = <<>>,
                              ![a].mailbox = <<>>]
    /\ UNCHANGED <<pagingVars, permVars, consVars, authVars, histVars, client_records, task, hub, enq, clock, dbVars, sendVars, pipeVars,
                   hubVars, relVars>>

\* outbound_sender: the next frame is taken and written; a failed write cancels the
\* token and ends the loop.  written holds the latest frame written, with its channel
\* and the lengths of both channels when it was taken.
SenderWrite(a) ==
    /\ actor[a].sender = "running" /\ ~actor[a].token
    /\ NextSource(a) # "none"
    /\ LET src == NextSource(a)
           f == IF src = "control" THEN Head(actor[a].control) ELSE Head(actor[a].mailbox)
       IN  IF actor[a].socket = "open"
           THEN actor' = [actor EXCEPT
                    ![a].control = IF src = "control" THEN Tail(@) ELSE @,
                    ![a].mailbox = IF src = "mailbox" THEN Tail(@) ELSE @,
                    ![a].written = <<[frame |-> f, source |-> src,
                                      control_len |-> Len(actor[a].control),
                                      mailbox_len |-> Len(actor[a].mailbox)]>>]
           ELSE actor' = [actor EXCEPT ![a].sender = "ended", ![a].token = TRUE,
                                       ![a].control = <<>>, ![a].mailbox = <<>>]
    /\ UNCHANGED <<pagingVars, permVars, consVars, authVars, histVars, client_records, task, hub, enq, clock, dbVars, sendVars, pipeVars,
                   hubVars, relVars>>

\* client_actor: one of its two tasks ended; online_users.remove(&user_id) removes the
\* record of the user, whichever connection it belongs to
ActorEnd(a) ==
    /\ actor[a].status = "running"
    /\ actor[a].sender = "ended" \/ actor[a].receiver = "ended"
    /\ actor' = [actor EXCEPT ![a].status = "ended"]
    /\ client_records' = [client_records EXCEPT ![actor[a].user] = 0]
    /\ UNCHANGED <<pagingVars, permVars, consVars, authVars, histVars, task, hub, enq, clock, dbVars, sendVars, pipeVars, hubVars, relVars>>

EnqueueIgnoresFull(receiver) ==
    IF client_records[receiver] = 0 THEN "not connected"
    ELSE IF ~ChannelOpen(client_records[receiver]) THEN "failed to enqueue message"
    ELSE "ok"
\* SessionHub::enqueue by connection: no record, or try_send on the mailbox of the
\* record: Closed when the outbound sender has ended, Full at MAILBOX_CAP frames
EnqueueOutcome(receiver) ==
    IF client_records[receiver] = 0 THEN "not connected"
    ELSE IF ~ChannelOpen(client_records[receiver]) THEN "failed to enqueue message"
    ELSE IF Len(actor[client_records[receiver]].mailbox) >= MAILBOX_CAP
    THEN "backpressure retry"
    ELSE "ok"

\* a call of enqueue(receiver, event)
HubEnqueue(receiver, e) ==
    /\ hub.pc = "running"
    /\ hub.enqueues < MaxEnqueues
    /\ hub' = [hub EXCEPT !.enqueues = @ + 1]
    /\ LET a == client_records[receiver]
           before == IF a = 0 THEN <<>> ELSE actor[a].mailbox
       IN  /\ actor' = IF EnqueueOutcome(receiver) = "ok"
                       THEN [actor EXCEPT ![a].mailbox = Append(@, EventFrame(e))]
                       ELSE actor
           /\ enq' = [n |-> hub.enqueues + 1, receiver |-> receiver,
                      event |-> EventFrame(e),
                      outcome |-> EnqueueOutcome(receiver),
                      record |-> a # 0,
                      open |-> a # 0 /\ ChannelOpen(a),
                      before |-> before,
                      after |-> IF a = 0 THEN <<>> ELSE actor'[a].mailbox]
    /\ UNCHANGED <<pagingVars, permVars, consVars, authVars, histVars, client_records, task, clock, dbVars, sendVars, pipeVars, hubVars,
                   relVars>>

\* SessionHub::shutdown, first loop: the token of every record is cancelled
ShutdownCancel ==
    /\ hub.pc = "running"
    /\ actor' = [a \in ActorIds |->
          IF \E u \in Users : client_records[u] = a
          THEN [actor[a] EXCEPT !.token = TRUE] ELSE actor[a]]
    /\ hub' = [hub EXCEPT !.pc = "cancelled"]
    /\ UNCHANGED <<pagingVars, permVars, consVars, authVars, histVars, client_records, task, enq, clock, dbVars, sendVars, pipeVars, hubVars,
                   relVars>>

\* SessionHub::shutdown, second loop: the handle of every record is taken
ShutdownTake ==
    /\ hub.pc = "cancelled"
    /\ hub' = [hub EXCEPT !.pc = "awaiting",
                          !.handles = {client_records[u] : u \in Users} \ {0}]
    /\ UNCHANGED <<pagingVars, permVars, consVars, authVars, histVars, actor, client_records, task, enq, clock, dbVars, sendVars, pipeVars,
                   hubVars, relVars>>

\* SessionHub::shutdown: every taken handle has been awaited, shutdown returns
ShutdownReturn ==
    /\ hub.pc = "awaiting"
    /\ \A a \in hub.handles : actor[a].status = "ended"
    /\ hub' = [hub EXCEPT !.pc = "returned"]
    /\ UNCHANGED <<pagingVars, permVars, consVars, authVars, histVars, actor, client_records, task, enq, clock, dbVars, sendVars, pipeVars,
                   hubVars, relVars>>

\* ------------------------------------------------------------ specification
ChatNext ==
    \/ AddFriend("u1", "u2")
    \/ CreateGroup("u1", "k1")
    \/ \E s \in Sessions, c \in ConvIds, m \in MsgIds :
          SendBegin(s, c, SessionUser[s], SessionContent[s], m)
    \/ \E s \in Sessions : SendCounter(s)
    \/ \E s \in Sessions : SendInsert(s)
    \/ \E s \in Sessions : SendCommit(s)
    \/ \E s \in Sessions : SendFail(s)

Spec == Init /\ [][ChatNext]_vars

\* One client sending in the direct conversation of u1 and u2, the notifier, the
\* consumer and the connection of the receiver.
SendNext(s, c, max) ==
    \/ sends < max /\ \E m \in MsgIds : SendBegin(s, c, SessionUser[s], SessionContent[s], m)
    \/ SendCounter(s)
    \/ SendInsert(s)
    \/ SendCommit(s)
    \/ SendFail(s)

NotifierNext(n) ==
    \/ NotifierClaim(n)
    \/ PublishOk(n)
    \/ PublishErr(n)
    \/ NotifierCommit(n)

PipeNext ==
    \/ AddFriend("u1", "u2")
    \/ SendNext("s1", "c1", MaxPipeSends)
    \/ \E n \in ServerNotifiers : NotifierNext(n)
    \/ \E n \in ServerNotifiers : NotifierAbort(n)
    \/ \E n \in ServerNotifiers : NotifierCancel(n)
    \/ ServerStart
    \/ Consume
    \/ Connect("u2")
    \/ Disconnect("u2")
    \/ OutboundSend("u2")
    \/ Tick

PipeSpec == Init /\ [][PipeNext]_vars

\* A run with add_friend and one send_message call in which the notifier loop keeps
\* running (no cancellation): its steps are taken as long as they are possible, time
\* passes, and the broker accepts a publish in the end.
LiveNext ==
    \/ AddFriend("u1", "u2")
    \/ SendNext("s1", "c1", 1)
    \/ \E n \in ServerNotifiers : NotifierNext(n)
    \/ \E n \in ServerNotifiers : NotifierAbort(n)
    \/ Tick

LiveSpec ==
    /\ Init /\ [][LiveNext]_vars
    /\ \A n \in ServerNotifiers : WF_vars(NotifierNext(n)) /\ SF_vars(PublishOk(n))
    /\ WF_vars(Tick)

\* The same run with the notifiers of two processes working on the outbox.
ClaimNext ==
    \/ AddFriend("u1", "u2")
    \/ SendNext("s1", "c1", 1)
    \/ \E n \in Notifiers : NotifierNext(n)
    \/ \E n \in Notifiers : NotifierAbort(n)
    \/ Tick

ClaimSpec == Init /\ [][ClaimNext]_vars

\* The relationship service alone: add_friend, create_group and invite_to_group calls
\* of two concurrent requests, at most MaxCalls calls in all.
RelNext ==
    \/ \E r \in Requests, me, other \in Users : AddFriendClaim(r, me, other)
    \/ \E r \in Requests : AddFriendCommit(r)
    \/ \E r \in Requests : AddFriendFail(r)
    \/ \E r \in Requests : AddFriendRead(r)
    \/ \E r \in Requests, key \in Keys : CreateGroupClaim(r, "u1", key)
    \/ \E r \in Requests : CreateGroupCommit(r)
    \/ \E r \in Requests : CreateGroupFail(r)
    \/ \E r \in Requests, g \in GroupIds, host, guest \in Users :
          InviteCheck(r, g, host, guest)
    \/ \E r \in Requests : InviteCommit(r)
    \/ \E r \in Requests : InviteFail(r)

RelSpec == Init /\ [][RelNext]_vars

\* a client that connects again once its earlier connection has ended
Reconnect(u) ==
    /\ \A a \in ActorIds : actor[a].user = u => actor[a].status # "running"
    /\ HubAccept(u)

\* The session hub by connection, fan-out side: connections of u2 come and go one after
\* another, the client sends pings, events are enqueued for u2.
HubNext ==
    \/ Reconnect("u2")
    \/ \E a \in ActorIds : ReceiverCancelled(a)
    \/ \E a \in ActorIds : InboundPing(a)
    \/ \E a \in ActorIds : InboundClose(a)
    \/ \E a \in ActorIds : ReceiverDrained(a)
    \/ \E a \in ActorIds : SenderCancelled(a)
    \/ \E a \in ActorIds : SenderWrite(a)
    \/ \E a \in ActorIds : ActorEnd(a)
    \/ HubEnqueue("u2", HubEvents[hub.enqueues + 1])

HubSpec == Init /\ [][HubNext]_vars

\* The session hub by connection, life cycle: connections of both users come and go,
\* the hub is shut down.
ShutNext ==
    \/ \E u \in Users : HubAccept(u)
    \/ \E a \in ActorIds : ClientClose(a)
    \/ \E a \in ActorIds : ReceiverCancelled(a)
    \/ \E a \in ActorIds : ReceiverStreamEnd(a)
    \/ \E a \in ActorIds : InboundClose(a)
    \/ \E a \in ActorIds : ReceiverDrained(a)
    \/ \E a \in ActorIds : SenderCancelled(a)
    \/ \E a \in ActorIds : ActorEnd(a)
    \/ ShutdownCancel
    \/ ShutdownTake
    \/ ShutdownReturn

ShutSpec == Init /\ [][ShutNext]_vars

\* History queries of both users on c1 while u1 sends messages to it.
HistNext ==
    \/ AddFriend("u1", "u2")
    \/ SendNext("s1", "c1", MaxSends)
    \/ \E u \in Users, page_size \in 0..MaxPageSize, before \in Cursors :
          GetHistory(u, "c1", page_size, before)

HistSpec == Init /\ [][HistNext]_vars

\* The consumer with a handler of any outcome, on the topic the notifier fills.
ConsNext ==
    \/ AddFriend("u1", "u2")
    \/ SendNext("s1", "c1", MaxPipeSends)
    \/ \E n \in ServerNotifiers : NotifierNext(n)
    \/ \E outcome \in HandleOutcomes : ConsumerRun(outcome)

ConsSpec == Init /\ [][ConsNext]_vars

\* The connections of u1 with frames passing the worker semaphore of the inbound
\* receiver: handler tasks by number, the outbound sender writing what they reply.
PermNext ==
    \/ Reconnect("u1")
    \/ \E a \in ActorIds : ClientClose(a)
    \/ \E a \in ActorIds : ReceiverCancelled(a)
    \/ \E a \in ActorIds : ReceiverStreamEnd(a)
    \/ \E a \in ActorIds : FrameArrives(a)
    \/ \E a \in ActorIds : ThrottleResume(a)
    \/ \E a \in ActorIds : \E reply \in BOOLEAN : WorkerDone(a, reply)
    \/ \E a \in ActorIds : JoinNext(a)
    \/ \E a \in ActorIds : ReceiverDrained(a)
    \/ \E a \in ActorIds : SenderCancelled(a)
    \/ \E a \in ActorIds : SenderWrite(a)
    \/ \E a \in ActorIds : ActorEnd(a)

PermSpec == Init /\ [][PermNext]_vars

\* A client paging through the friends of a user, for every small friends table.
FriendNext ==
    \/ \E me \in FriendIds : \E fs \in SUBSET (FriendIds \ {me}) :
          \E since \in [fs -> 0..MaxSince] : \E page_size \in 1..MaxFriendPage :
             PagingStart(me, fs, since, page_size)
    \/ PagingNext

FriendSpec == Init /\ [][FriendNext]_vars

\* One login and refresh_token calls of two callers with any issued refresh token.
AuthNext ==
    \/ Login("u1")
    \/ \E k \in Callers : RefreshGet(k)
    \/ \E k \in Callers : RefreshDel(k)
    \/ \E k \in Callers : RefreshIssue(k)

AuthSpec == Init /\ [][AuthNext]_vars

\* The connections of u1 with the conversation service behind them: u1 sends
\* chat.message.send commands for c1, the handler task runs send_message and
\* acknowledges on the control channel; the connection may end at any point.
AckNext ==
    \/ AddFriend("u1", "u2")
    \/ Reconnect("u1")
    \/ \E a \in ActorIds : ClientClose(a)
    \/ \E a \in ActorIds : ReceiverCancelled(a)
    \/ \E a \in ActorIds : ReceiverStreamEnd(a)
    \/ \E a \in ActorIds : InboundCommand(a, "s1", "c1", "m1")
    \/ HandlerSend("s1")
    \/ SendCounter("s1")
    \/ SendInsert("s1")
    \/ SendCommit("s1")
    \/ SendFail("s1")
    \/ HandlerDone("s1")
    \/ \E a \in ActorIds : InboundClose(a)
    \/ \E a \in ActorIds : ReceiverDrained(a)
    \/ \E a \in ActorIds : SenderCancelled(a)
    \/ \E a \in ActorIds : SenderWrite(a)
    \/ \E a \in ActorIds : ActorEnd(a)

AckSpec == Init /\ [][AckNext]_vars

\* ------------------------------------------------------------------ claims
Ok(s) == ret[s].status = "ok"
StoreError(s) == ret[s].status = "err" /\ ret[s].error = "Store"
ChatEvents == {i \in 1..Len(outbox) : outbox[i].event_type = "chat.message.new"}
\* the call of session s commits in this step
Commits(s) == tx[s].pc = "enqueued" /\ ret'[s].status = "ok"
\* the message_id of the call of session s was stored when the call began
StoredBefore(s) == tx[s].message_id \in tx[s].snap

\* C1: two successful send_message calls in one conversation with different
\* message_ids, concurrent or not, are assigned different offsets: no two stored
\* rows of a conversation share an offset, an offset assigned in an open transaction
\* is not the offset of a stored row or of another open transaction of that
\* conversation, and the offsets assigned to two successful calls differ.
C1_DistinctOffsets ==
    /\ \A r1, r2 \in message :
          (r1.conversation_id = r2.conversation_id /\ r1.message_id # r2.message_id)
             => r1.message_offset # r2.message_offset
    /\ \A s \in Sessions : tx[s].pc \in {"counted", "enqueued"} =>
          /\ \A r \in MessagesOf(tx[s].conversation_id) : r.message_offset # tx[s].assigned_off
          /\ \A t \in Sessions \ {s} :
                (tx[t].pc \in {"counted", "enqueued"}
                   /\ tx[t].conversation_id = tx[s].conversation_id)
                   => tx[t].assigned_off # tx[s].assigned_off
    /\ \A s, t \in Sessions :
          (s # t /\ Ok(s) /\ Ok(t)
             /\ ret[s].request.conversation_id = ret[t].request.conversation_id
             /\ ret[s].request.message_id # ret[t].request.message_id)
             => ret[s].assigned_off # ret[t].assigned_off

\* A call succeeded and stored its message while the transaction of another call for
\* the same conversation was open; that one has inserted its row since.
C1_Witness ==
    \E s, t \in Sessions :
       /\ s # t /\ Ok(s) /\ ~ret[s].dup
       /\ tx[t].pc = "enqueued" /\ ~tx[t].dup
       /\ tx[t].conversation_id = ret[s].request.conversation_id
       /\ ret[s].request.message_id \notin tx[t].snap

\* C2: in a conversation whose send_message calls all had message_ids not used by
\* an earlier call, the stored offsets have no gaps, whichever calls rolled back.
C2_NoGaps ==
    \A c \in ConvIds \ dupCalls :
       \A r1, r2 \in MessagesOf(c) :
          \A k \in (r1.message_offset + 1)..(r2.message_offset - 1) :
             \E r \in MessagesOf(c) : r.message_offset = k

\* Two messages are stored in such a conversation and a call failed with a storage
\* error (so after the membership check, inside the transaction).
C2_Witness ==
    \E c \in ConvIds \ dupCalls :
       /\ Cardinality(MessagesOf(c)) >= 2
       /\ sends = 3
       /\ \E s \in Sessions : StoreError(s)

\* C3: the first message sent in a newly created conversation has offset 1.  Offsets
\* grow in commit order, so the first message is the stored row with the least offset.
C3_FirstOffsetIsOne ==
    \A r \in message :
       (\A q \in MessagesOf(r.conversation_id) : q.message_offset >= r.message_offset)
          => r.message_offset = 1

\* C4: at most one chat.message.new event is enqueued per message_id.
C4_OneEventPerMessage ==
    \A i, j \in ChatEvents :
       outbox[i].payload_json.message_id = outbox[j].payload_json.message_id => i = j

\* C5: a send_message call with a message_id already stored leaves next_offset of the
\* conversation counter as it was.
C5_DuplicateKeepsCounter ==
    [][\A s \in Sessions :
          (Commits(s) /\ StoredBefore(s)) => conversation_counter' = conversation_counter]_vars

\* C6: a send_message call with a message_id already stored returns the record of the
\* stored row and changes no row, whoever repeats the call with whatever content;
\* stored rows are never changed by any step.
C6_DuplicateReturnsOriginal ==
    [][/\ \A s \in Sessions :
             (Commits(s) /\ StoredBefore(s)) =>
                /\ ret'[s].record = MessageRecord(MessageRow(tx[s].message_id))
                /\ message' = message
       /\ message \subseteq message']_vars

\* A repeated call by another sender with another content returned the stored record.
C6_Witness ==
    \E s \in Sessions :
       /\ Ok(s) /\ ret[s].stored_before
       /\ ret[s].request.content # ret[s].record.content
       /\ ret[s].request.sender # ret[s].record.sender

\* C7: in every committed state a message row is stored iff a chat.message.new event
\* carrying its record is in the outbox, and the conversation's last_msg_off and
\* last_msg_at are those of its latest stored message.
C7_MessageIffEvent ==
    /\ \A r \in message :
          \E i \in ChatEvents : outbox[i].payload_json = MessageRecord(r)
    /\ \A i \in ChatEvents :
          \E r \in message : outbox[i].payload_json = MessageRecord(r)
    /\ \A conv \in conversation :
          LET rows == MessagesOf(conv.conversation_id)
          IN IF rows = {}
             THEN conv.last_msg_off = 0 /\ conv.last_msg_at = NullTime
             ELSE /\ \E r \in rows : conv.last_msg_off = r.message_offset
                  /\ \A r \in rows : conv.last_msg_off >= r.message_offset
                  /\ \E r \in rows : conv.last_msg_at = r.created_at
                  /\ \A r \in rows : conv.last_msg_at >= r.created_at

\* A message and its event are committed and another call rolled back.
C7_Witness ==
    /\ message # {}
    /\ \E s \in Sessions : StoreError(s)
    /\ \E s \in Sessions : tx[s].pc = "enqueued"

\* the publishes of outbox event i in the topic, and whether the consumer is past them
Publishes(i) == {k \in 1..Len(topic) : topic[k].event_id = i}
Published(i) == Publishes(i) # {}
Delivered(i) == outbox[i].delivered_at # NullTime
Consumed(i) == Published(i) /\ \A k \in Publishes(i) : k <= position
ChatEventsOf(m) == {i \in ChatEvents : outbox[i].payload_json.message_id = m}

\* C8: a message accepted by send_message is placed exactly once in the mailbox of
\* every other member who stays connected: never twice, and once its event is marked
\* delivered and the consumer has handled its publishes, not zero times.  Messages
\* sent once only (one event in the outbox) are looked at.
C8_PlacedExactlyOnce ==
    \A p \in stayed :
       Cardinality(ChatEventsOf(p[1])) = 1 =>
          /\ placed[p] <= 1
          /\ (\A i \in ChatEventsOf(p[1]) : Delivered(i) /\ Consumed(i)) => placed[p] = 1

\* C9: for outbox events E1 and E2 with the same partition key, E1 enqueued before
\* E2 (created_at strictly earlier), every publish of E2 in the topic comes after a
\* publish of E1, and so does every record of E2 the consumer has handled.
EnqueuedBefore(i, j) ==
    /\ outbox[i].partition_key = outbox[j].partition_key
    /\ outbox[i].created_at < outbox[j].created_at
C9_PublishedInOrder ==
    \A i, j \in 1..Len(outbox) :
       EnqueuedBefore(i, j) =>
          /\ \A kj \in Publishes(j) : \E ki \in Publishes(i) : ki < kj
          /\ \A kj \in Publishes(j) : kj <= position => \E ki \in Publishes(i) : ki < kj

\* the event ids a run can commit
MaxEvents == MaxPipeSends + 1

\* C10: every committed outbox event is eventually published to the broker and
\* marked delivered, provided the notifier loop keeps running, time passes and the
\* broker accepts a publish in the end.
C10_EventuallyDelivered ==
    \A i \in 1..MaxEvents :
       (Len(outbox) >= i) ~> (Published(i) /\ Delivered(i))

\* An event whose publish failed and was rescheduled, and whose transaction was
\* lost after a publish, is published and marked delivered.
C10_Witness ==
    \E i \in 1..Len(outbox) :
       /\ outbox[i].attempt_count > 0
       /\ Delivered(i) /\ Published(i)
       /\ rollbacks > 0
\* C11: whenever an outbox event has delivered_at set in committed state, a publish
\* of that event succeeded earlier (its record is in the topic).
C11_DeliveredWasPublished ==
    \A i \in 1..Len(outbox) : Delivered(i) => Published(i)

\* An event is marked delivered in committed state after a failed publish of it, and
\* another event has a failed publish and is not delivered.
C11_Witness ==
    /\ \E i \in 1..Len(outbox) : Delivered(i) /\ outbox[i].attempt_count > 0
    /\ \E j \in 1..Len(outbox) : ~Delivered(j) /\ outbox[j].attempt_count > 0

\* C12: once delivered_at of an outbox event is set and committed, no notifier has
\* it in a claimed batch and no step publishes it again.
C12_NoClaimAfterDelivered ==
    [][\A i \in 1..Len(outbox) :
          Delivered(i) =>
             /\ \A n \in Notifiers : i \notin Claimed(n)'
             /\ Publishes(i)' = Publishes(i)]_vars

\* An event is delivered and a notifier holds a batch claimed after that, while the
\* other notifier is idle.
C12_Witness ==
    \E n \in Notifiers, i \in 1..Len(outbox) :
       /\ Delivered(i)
       /\ Claimed(n) # {}
       /\ \A j \in Claimed(n) : outbox[j].created_at >= outbox[i].delivered_at
       /\ \A o \in Notifiers \ {n} : ntx[o].pc = "idle"

\* C13: with several notifier loops on one outbox, at every instant each outbox
\* event is in the claimed batch of at most one open notifier transaction.
C13_ClaimedByAtMostOne ==
    \A n, o \in Notifiers : n # o => Claimed(n) \cap Claimed(o) = {}

\* Two notifier transactions are open at once, each with a claimed batch.
C13_Witness ==
    \E n, o \in Notifiers : n # o /\ Claimed(n) # {} /\ Claimed(o) # {}

\* ------------------------------------------------ relationship claims
Pairs == {UserPair(a, b) : a, b \in Users} \ {<<u, u>> : u \in Users}
DirectPairRows(p) == {row \in direct_pair : <<row.user_min, row.user_max>> = p}
DirectConversations(p) ==
    {c \in conversation : c.kind_id = 1 /\ conversation_member[c.conversation_id] = {p[1], p[2]}}
\* a finished add_friend call of request r for the pair p
FinishedAddFriend(r, p) ==
    /\ out[r].status # "none" /\ out[r].op = "add_friend"
    /\ out[r].me # out[r].other /\ UserPair(out[r].me, out[r].other) = p

\* C14: after any interleaving of add_friend calls for a pair, by either user, at most
\* one direct_pair row and at most one direct conversation exist for the pair.
C14_OneDirectConversation ==
    \A p \in Pairs : Cardinality(DirectPairRows(p)) <= 1
                     /\ Cardinality(DirectConversations(p)) <= 1
\* two calls for the pair, one by each user, overlapped and finished; the conversation exists
C14_Witness ==
    \E p \in Pairs :
        /\ FinishedAddFriend("r1", p) /\ FinishedAddFriend("r2", p)
        /\ out["r1"].me # out["r2"].me
        /\ out["r1"].rival = out["r2"].id \/ out["r2"].rival = out["r1"].id
        /\ Cardinality(DirectPairRows(p)) = 1

\* C15: after add_friend has succeeded for a pair, every later add_friend call for the
\* pair, by either user, returns Ok with the conversation_id of the first call.
C15_LaterAddFriendReturnsSame ==
    \A r \in Requests, p \in Pairs :
        FinishedAddFriend(r, p) /\ out[r].after # {} =>
            /\ out[r].status = "ok"
            /\ \A h \in out[r].after : h.conversation_id = out[r].conversation_id

\* C16: when the two users of a pair call add_friend for each other concurrently, the
\* call that lost the claim returns Ok with the conversation_id the winner returns.
C16_ConcurrentBothOk ==
    \A r, w \in Requests, p \in Pairs :
        /\ FinishedAddFriend(r, p) /\ FinishedAddFriend(w, p)
        /\ out[r].me = out[w].other /\ out[r].rival = out[w].id
        /\ out[w].status = "ok"
        => /\ out[r].status = "ok"
           /\ out[r].conversation_id = out[w].conversation_id

\* C17: a friendship row exists for a pair iff a direct_pair row and its conversation
\* exist for the pair.
C17_FriendshipIffDirectPair ==
    \A p \in Pairs :
        (\E f \in friendship : <<f.user_min, f.user_max>> = p)
            <=> (DirectPairRows(p) # {} /\ DirectConversations(p) # {})

GroupsFor(owner, key) ==
    {g \in chat_group : \E row \in group_create_idem :
        row.owner_id = owner /\ row.idem_key = key /\ row.proposed_group = g.group_id}
\* a finished create_group call of request r for (owner, key)
FinishedCreateGroup(r, owner, key) ==
    /\ out[r].status # "none" /\ out[r].op = "create_group"
    /\ out[r].me = owner /\ out[r].key = key

\* C18: for every (owner, key), after any interleaving of create_group calls, at most
\* one group row and one group conversation created for (owner, key) exist.
C18_OneGroupPerKey ==
    \A owner \in Users, key \in Keys :
        /\ Cardinality(GroupsFor(owner, key)) <= 1
        /\ Cardinality({c \in conversation : c.kind_id = 2 /\
               \E g \in GroupsFor(owner, key) : g.conversation_id = c.conversation_id}) <= 1
\* two finished calls with the same owner and key, the second begun while the first was
\* in its transaction; the group exists
C18_Witness ==
    \E owner \in Users, key \in Keys :
        /\ FinishedCreateGroup("r1", owner, key) /\ FinishedCreateGroup("r2", owner, key)
        /\ out["r1"].status = "ok" /\ out["r1"].id < out["r2"].id
        /\ out["r2"].after = {}
        /\ Cardinality(GroupsFor(owner, key)) = 1

\* C19: after create_group has succeeded for (owner, key), every later create_group call
\* with that owner and key returns Ok with the same (group_id, conversation_id).
C19_LaterCreateGroupReturnsSame ==
    \A r \in Requests, owner \in Users, key \in Keys :
        FinishedCreateGroup(r, owner, key) /\ out[r].after # {} =>
            /\ out[r].status = "ok"
            /\ \A h \in out[r].after : /\ h.group_id = out[r].group_id
                                       /\ h.conversation_id = out[r].conversation_id

\* C20: in every reachable state the conversation of every group has a member holding
\* the owner role.
C20_GroupKeepsOwner ==
    \A g \in chat_group :
        \E u \in Users : conversation_member_role[g.conversation_id][u] = "owner"

\* ------------------------------------------------ claims of the third part
NotMember(s) == ret[s].status = "err" /\ ret[s].error = "NotMember"

\* C21: send_message by a user who is not a member of the conversation returns
\* NotMember and changes nothing: counter, messages, conversation row and outbox stay as
\* they were, and no transaction of a non-member goes on to write.
C21_NonMemberChangesNothing ==
    [][/\ \A s \in Sessions :
            tx'[s].pc # "idle" =>
                tx'[s].sender \in conversation_member'[tx'[s].conversation_id]
       /\ \A s \in Sessions :
            /\ sends' = sends + 1 /\ tx[s].pc = "idle" /\ tx'[s].pc = "idle"
            /\ ret'[s].status = "err" /\ ret'[s].error = "NotMember"
            /\ ret'[s] # ret[s]
            => /\ ret'[s].request.sender
                    \notin conversation_member[ret'[s].request.conversation_id]
               /\ dbVars' = dbVars]_vars
\* a non-member was turned away from a conversation that holds messages
C21_Witness ==
    \E s \in Sessions :
        /\ NotMember(s)
        /\ ConversationExists(ret[s].request.conversation_id)
        /\ MessagesOf(ret[s].request.conversation_id) # {}
        /\ Len(outbox) > 0

\* C24: when enqueue to a receiver fails with "backpressure retry", the broker message
\* is not committed: the consumer does not move past the record.
C24_BackpressureNotCommitted ==
    [][position' = position + 1 =>
          \A r \in topic[position + 1].payload.receivers :
              enqueue(r, topic[position + 1].payload.body) # "backpressure retry"]_vars

\* C30: the notifier stops only between iterations: cancellation never abandons a batch
\* after some of its events were published and before their delivered marks were
\* committed.
C30_CancelledBetweenIterations ==
    [][\A n \in ServerNotifiers :
          ntx[n].pc # "stopped" /\ ntx'[n].pc = "stopped" =>
              \/ ntx[n].pc = "idle"
              \/ \A k \in 1..Len(ntx[n].marks) : ~ntx[n].marks[k].delivered]_vars

\* ------------------------------------------------ session hub claims
UncancelledActors(u) ==
    {a \in ActorIds : actor[a].user = u /\ actor[a].status = "running" /\ ~actor[a].token}

\* C22: accept_connection for a user who already has a record cancels the previous
\* actor's token: at any time at most one uncancelled actor per user is running.
C22_OneUncancelledActor ==
    \A u \in Users : Cardinality(UncancelledActors(u)) <= 1

\* C23: enqueue has exactly three outcomes: Ok with the event appended at the back of
\* the mailbox when a record exists and the mailbox has room, "backpressure retry"
\* with the mailbox unchanged when it is full, "not connected" when no record exists.
C23_ThreeOutcomes ==
    enq.n > 0 =>
        \/ /\ enq.outcome = "ok" /\ enq.record /\ Len(enq.before) < MAILBOX_CAP
           /\ enq.after = Append(enq.before, enq.event)
        \/ /\ enq.outcome = "backpressure retry" /\ enq.record
           /\ Len(enq.before) >= MAILBOX_CAP /\ enq.after = enq.before
        \/ /\ enq.outcome = "not connected" /\ ~enq.record

\* C23 as the code has it: a fourth outcome, "failed to enqueue message", when the
\* record exists and the outbound sender of its actor has ended (the mailbox channel is
\* closed); the other three as stated, Ok and "backpressure retry" for an open channel.
C23_FourOutcomes ==
    enq.n > 0 =>
        \/ /\ enq.outcome = "ok" /\ enq.record /\ enq.open
           /\ Len(enq.before) < MAILBOX_CAP
           /\ enq.after = Append(enq.before, enq.event)
        \/ /\ enq.outcome = "backpressure retry" /\ enq.record /\ enq.open
           /\ Len(enq.before) >= MAILBOX_CAP /\ enq.after = enq.before
        \/ /\ enq.outcome = "failed to enqueue message" /\ enq.record /\ ~enq.open
           /\ enq.after = enq.before
        \/ /\ enq.outcome = "not connected" /\ ~enq.record
\* an enqueue found the record of an actor whose outbound sender had ended, after an
\* earlier enqueue for the user
C23_Witness ==
    enq.n > 1 /\ enq.outcome = "failed to enqueue message" /\ enq.record /\ ~enq.open

\* C25: the outbound sender writes a control frame whenever the control channel is
\* non-empty; a mailbox frame is written only when the control channel is empty.
C25_ControlFirst ==
    \A a \in ActorIds : \A k \in 1..Len(actor[a].written) :
        /\ actor[a].written[k].control_len > 0 => actor[a].written[k].source = "control"
        /\ actor[a].written[k].source = "mailbox" => actor[a].written[k].control_len = 0
\* a control frame was written while the mailbox was full
C25_Witness ==
    \E a \in ActorIds : \E k \in 1..Len(actor[a].written) :
        /\ actor[a].written[k].source = "control"
        /\ actor[a].written[k].mailbox_len = MAILBOX_CAP

HasAck(s) ==
    /\ Len(task[s].acks) = 1
    /\ task[s].acks[1].kind = "ack"
    /\ task[s].acks[1].conversation_id = ret[s].record.conversation_id
    /\ task[s].acks[1].message_id = ret[s].record.message_id
    /\ task[s].acks[1].message_offset = ret[s].record.message_offset
    /\ task[s].acks[1].created_at = ret[s].record.created_at

C27_ShutdownEndsEveryActor ==
    hub.pc = "returned" =>
        \A a \in ActorIds : actor[a].status # "unused" =>
            actor[a].token /\ actor[a].status = "ended"

\* ------------------------------------------------ history claims
\* the messages of the page's conversation below the cursor (all without a cursor)
Below(c, before) ==
    {r \in message : /\ r.conversation_id = c
                     /\ before.some => r.message_offset < before.offset}

\* the page p is what the claim describes, against the committed messages
PageAsClaimed(p) ==
    LET all == Below(p.conversation_id, p.before)
        res == p.result
        ids == {res[i].message_id : i \in 1..Len(res)}
    IN  /\ Len(res) = Min(p.page_size, Cardinality(all))
        /\ Cardinality(ids) = Len(res)
        /\ ids \subseteq {r.message_id : r \in all}
        /\ \A i \in 1..Len(res) : \A j \in 1..Len(res) :
              i < j => res[i].message_offset < res[j].message_offset
        /\ \A r \in all : r.message_id \notin ids =>
              \A i \in 1..Len(res) : r.message_offset < res[i].message_offset

\* C28: get_history by a member returns exactly the min(page_size, count) messages with
\* the highest offsets among those with message_offset < before.offset (all messages
\* when before is absent), in ascending offset order.
C28_HistoryPage ==
    [][page' # page /\ page'.status = "ok" => PageAsClaimed(page')]_vars

\* the same for cursors whose offset fits the signed width: holds
HistoryPageForSignedCursors ==
    [][page' # page /\ page'.status = "ok" /\ page'.before.offset < 2^(CursorBits - 1)
          => PageAsClaimed(page')]_vars

\* ------------------------------------------------ auth claims
\* C29: a refresh token is consumed by a successful refresh_token call: no refresh token
\* yields new tokens more than once, whether the calls follow each other or overlap.
C29_RefreshAtMostOnce ==
    \A j \in Jtis : auth.ok[j] <= 1

\* ------------------------------------------------ notifier claims, continued
\* the position of outbox row i in the batch of notifier n (0: not in it)
BatchIndex(n, i) ==
    IF \E k \in 1..Len(ntx[n].batch) : ntx[n].batch[k] = i
    THEN CHOOSE k \in 1..Len(ntx[n].batch) : ntx[n].batch[k] = i
    ELSE 0
\* notifier n commits its transaction in this step
NotifierCommits(n) ==
    /\ ntx[n].pc = "claimed" /\ ntx'[n].pc = "idle"
    /\ rollbacks' = rollbacks

\* C31: a failed publish reschedules exactly that event (attempt_count + 1,
\* next_attempt_at later than now, last_error recorded, delivered_at left null); the
\* notifier goes on with the rest of the batch and all outcomes are committed together.
C31_FailedPublishRescheduled ==
    [][\A n \in Notifiers :
          \* the publish of the current event fails: nothing is published, the event
          \* gets a reschedule to a later time and the loop moves to the next event
          /\ (Pending(n) /\ topic' = topic /\ ntx'[n].pc = "claimed"
                /\ Len(ntx'[n].marks) = Len(ntx[n].marks) + 1)
             => /\ ~ntx'[n].marks[Len(ntx'[n].marks)].delivered
                /\ ntx'[n].marks[Len(ntx'[n].marks)].next_attempt_in > 0
                /\ ntx'[n].batch = ntx[n].batch
                /\ SubSeq(ntx'[n].marks, 1, Len(ntx[n].marks)) = ntx[n].marks
          \* the commit: every event of the batch has its outcome, no other row changes
          /\ NotifierCommits(n)
             => /\ Len(ntx[n].marks) = Len(ntx[n].batch)
                /\ Len(outbox') = Len(outbox)
                /\ \A i \in 1..Len(outbox) :
                      LET k == BatchIndex(n, i)
                      IN  IF k = 0 THEN outbox'[i] = outbox[i]
                          ELSE IF ntx[n].marks[k].delivered
                          THEN /\ outbox'[i].delivered_at # NullTime
                               /\ outbox'[i].attempt_count = outbox[i].attempt_count
                          ELSE /\ outbox'[i].attempt_count = outbox[i].attempt_count + 1
                               /\ outbox'[i].next_attempt_in = ntx[n].marks[k].next_attempt_in
                               /\ outbox'[i].last_error # "null"
                               /\ outbox'[i].delivered_at = NullTime
                               /\ outbox'[i].delivered_at = outbox[i].delivered_at]_vars
\* a batch of two events whose first publish failed and whose second succeeded is
\* about to commit
C31_Witness ==
    \E n \in Notifiers :
        /\ ntx[n].pc = "claimed" /\ Len(ntx[n].batch) = 2 /\ Len(ntx[n].marks) = 2
        /\ ~ntx[n].marks[1].delivered /\ ntx[n].marks[2].delivered
        /\ \E k \in 1..Len(topic) : topic[k].event_id = outbox[ntx[n].batch[2]].event_id

\* ------------------------------------------------ consumer claims
\* C32: after the handler returned an error or Retry for a record, the committed
\* position does not move past that record until the handler has handled it
\* successfully.
C32_NoCommitPastFailed ==
    \A m \in consumer.failed : consumer.committed < m

\* ------------------------------------------------ client actor claims
\* the record of user u is taken out of the online-users map in this step
RecordRemoved(u) == client_records[u] # 0 /\ client_records'[u] = 0
\* handler tasks of actor a that have not completed
InFlight(a) == {s \in Sessions : task[s].pc = "spawned" /\ task[s].actor = a}

\* C33: a client's record is removed from the online-users map only after both its
\* outbound sender and its inbound receiver have ended.
C33_RemovedAfterBothEnded ==
    [][\A u \in Users : RecordRemoved(u) =>
          /\ actor[client_records[u]].sender = "ended"
          /\ actor[client_records[u]].receiver = "ended"]_vars

\* C34: once a task of a client actor has ended or its token is cancelled, the token
\* is cancelled, the other task and the in-flight handler tasks end, and only after
\* that the actor task ends: an ended actor has nothing of its own still running.
C34_ActorEndsLast ==
    \A a \in ActorIds : actor[a].status = "ended" =>
        /\ actor[a].token
        /\ actor[a].sender = "ended"
        /\ actor[a].receiver = "ended"
        /\ InFlight(a) = {}

\* C35: while a client actor runs with an uncancelled token, the online-users map
\* holds that actor's own record; an actor that ends removes only its own record.
C35_OwnRecordOnly ==
    /\ [](\A a \in ActorIds :
            actor[a].status = "running" /\ ~actor[a].token
               => client_records[actor[a].user] = a)
    /\ [][\A u \in Users : RecordRemoved(u) =>
            /\ actor[client_records[u]].status = "running"
            /\ actor'[client_records[u]].status = "ended"]_vars

\* ------------------------------------------------ worker permit claims
\* C36: per client at most max_inflight_messages handler tasks run at the same time;
\* a handler runs only while holding a worker permit and every permit is returned
\* exactly once (handler completed or timed out, or not started for want of a
\* results-backlog permit).
C36_HandlersWithinPermits ==
    \A a \in ActorIds :
        /\ inflight[a].running <= max_inflight_messages
        /\ inflight[a].permits >= 0
        /\ inflight[a].permits + inflight[a].running = max_inflight_messages
\* a frame was skipped for want of a results-backlog permit, after a handler had run
C36_Witness ==
    \E a \in ActorIds :
        /\ inflight[a].last = "skipped" /\ inflight[a].finished > 0
        /\ inflight[a].permits = max_inflight_messages

\* C37: with no worker permit available the inbound receiver puts the throttle notice
\* on the control channel and goes on with the next frame without ever waiting, also
\* when the control channel is full.
C37_ThrottleNeverWaits ==
    \A a \in ActorIds : actor[a].receiver # "throttling"

\* ------------------------------------------------ invite claims
\* request r commits its invite_to_group transaction in this step
InviteCommits(r) ==
    call[r].pc = "invite" /\ call'[r].pc = "idle" /\ out'[r].status = "ok"
\* the outbox rows appended in this step
Written == {outbox'[i] : i \in (Len(outbox) + 1)..Len(outbox')}

\* C38: the group.member.new event written by a committed invite_to_group has as
\* receivers the members of the conversation after the invite (the guest included)
\* minus the host, and the group.new event written with it has receivers [guest].
C38_InviteEventReceivers ==
    [][\A r \in Requests : InviteCommits(r) =>
          LET cv == call[r].conversation_id
              host == call[r].me
              guest == call[r].other
              expected == conversation_member'[cv] \ {host}
          IN  /\ guest \in conversation_member'[cv]
              /\ \E e \in Written : e.event_type = "group.new" /\ e.receivers_json = {guest}
              /\ expected # {} => \E e \in Written : e.event_type = "group.member.new"
              /\ \A e \in Written :
                    e.event_type = "group.member.new" => e.receivers_json = expected]_vars

\* ------------------------------------------------ list_friends claims
\* the friends of the paging user in the table
FriendsOf(rows, me) == {IF f.user_min = me THEN f.user_max ELSE f.user_min : f \in rows}

\* C39: paging through list_friends with a fixed page size and the cursor of the last
\* row of the previous page returns every friend of the user exactly once, also when
\* friendships share their created_at.
C39_EveryFriendOnce ==
    paging.pc = "done" =>
        /\ {paging.seen[i] : i \in 1..Len(paging.seen)} = FriendsOf(paging.rows, paging.user_id)
        /\ Len(paging.seen) = Cardinality(FriendsOf(paging.rows, paging.user_id))

\* C40: a record returned by send_message(conversation_id, sender, content,
\* message_id) has the requested conversation_id, so the caller, whose membership
\* was checked for that conversation only, never obtains the record of a message
\* stored in a conversation they are not a member of.
C40_RecordOfRequestedConversation ==
    \A s \in Sessions :
        ret[s].status = "ok" =>
            /\ ret[s].record.conversation_id = ret[s].request.conversation_id
            /\ SessionUser[s] \in conversation_member[ret[s].record.conversation_id]

============================================================================
